---- MODULE Spec2Model ----
(***************************************************************************)
(* A model of the curator pipeline of obsidian-ppl: the CuratorQueue       *)
(* (models/curatorManager/queue.ts), the ProcessorRegistry                 *)
(* (models/curatorManager/processorRegistry.ts) and one pipeline pass      *)
(* over a contact.                                                         *)
(***************************************************************************)
EXTENDS Integers, Sequences, FiniteSets, TLC

(***************************************************************************)
(* Bounds and input domains                                                *)
(***************************************************************************)

\* Date.now() returns a value in 0..MaxTime.
MaxTime == 1

\* ContactNote objects a caller may hold.  Object identity is the name; two
\* objects may carry the same path and uid (o1 and o2 below), as the object
\* literals of the queue tests do.
ContactObjs == {"o1", "o2", "o3"}

\* The path/uid a ContactNote object carries.
ContactKey(o) == IF o \in {"o1", "o2"} THEN "/contact.md|uid-1" ELSE "/contact3.md|uid-3"

RunTypes == {"IMMEDIATELY", "UPCOMING", "IMPROVEMENT"}

\* Labels passed to setProcessing as contactName (null included).
ContactNames == {"null", "Alice"}

\* The value of a call that returns nothing (void / undefined).
Undefined == [kind |-> "undefined"]

VARIABLES
    queue,          \* CuratorQueue.queue: sequence of CuratorQueItem
    isProcessing,   \* CuratorQueue.isProcessing
    activeContact,  \* CuratorQueue.activeContact
    qcall,          \* the last CuratorQueue call: its name and arguments
    qret            \* the value that call returned

VARIABLES
    processors,     \* ProcessorRegistry.processors: a Map, in insertion order
    rcall,          \* the last ProcessorRegistry call: its name and arguments
    rret            \* the value that call returned

VARIABLES
    pc,             \* where the pipeline pass stands: idle, gate, mutate, done, failed
    order,          \* the processors of the pass, as resolved when it started
    idx,            \* the position in order of the processor being visited
    record,         \* the contact record of the pass
    trace           \* the gate and mutate calls of the pass, in call order

VARIABLES
    note,           \* the ContactNote a caller holds: its frontmatter and content
    scall           \* the last call on that note, and the note it was made on

VARIABLES
    manager,        \* CuratorManager.registry.processors, in insertion order
    mret            \* what the last getSorted() on that registry returned

VARIABLES
    list,           \* a Relationship[] a caller holds
    fields,         \* what generateRelatedFrontmatter(list) returned
    parsed          \* what parseRelatedFrontmatter(fields) returned

VARIABLES
    writeQueue,       \* WriteQueue.queue: the pending WriteOperations
    writeProcessing,  \* WriteQueue.processing
    currentOperation, \* WriteQueue.currentOperation (<<>> for null)
    activePaths,      \* WriteQueue.activePaths
    calls,            \* where each processQueue invocation stands, and its operation
    wcall,            \* the last WriteQueue call
    clock,            \* the callers' clock: the timestamp of the last operation enqueued
    handed,           \* the operations the writer was called with, in call order
    owed              \* an enqueue has not been followed by a processQueue call yet

VARIABLES
    contacts,       \* VcardFile.contacts
    fcall           \* the last VcardFile call: its argument, the contacts before, its result

VARIABLES
    settings,       \* SyncWatcher.settings: vcardWatchEnabled and the ignored filenames
    isRunning,      \* SyncWatcher.isRunning
    intervalId,     \* SyncWatcher.intervalId (<<>> for undefined)
    timers,         \* the interval timers that are scheduled
    pendingStarts,  \* the start() invocations that await their initial scan
    issued,         \* the number of timers setInterval has created
    lastChecked,    \* SyncWatcher.lastChecked: a Map, in insertion order
    disk,           \* the .vcf files of the watch folder: mtime, 0 when there is none
    kcall           \* the last SyncWatcher call and what it returned

VARIABLES
    uidIndex,       \* the UID index: Map of UID to ContactCacheEntry
    pathIndex,      \* the path index: Map of file path to UID
    ccall           \* the last call on the indices

VARIABLES
    progress,       \* the BatchProgress object (Null before one is created)
    bcall           \* the last batch progress call

VARIABLES
    vaultFiles,     \* the markdown files of the vault
    fileCache,      \* the files whose metadata cache is not null
    wait            \* the wait under way or last made: its locals and its outcome

qvars == <<queue, isProcessing, activeContact, qcall, qret>>

rvars == <<processors, rcall, rret>>

pvars == <<pc, order, idx, record, trace>>

svars == <<note, scall>>

mvars == <<manager, mret>>

cvars == <<list, fields, parsed>>

wvars == <<writeQueue, writeProcessing, currentOperation, activePaths, calls, wcall,
          clock, handed, owed>>

fvars == <<contacts, fcall>>

kvars == <<settings, isRunning, intervalId, timers, pendingStarts, issued, lastChecked, disk, kcall>>

hvars == <<uidIndex, pathIndex, ccall>>

bvars == <<progress, bcall>>

avars == <<vaultFiles, fileCache, wait>>

vars == <<qvars, rvars, pvars, svars, mvars, cvars, wvars, fvars, kvars, hvars, bvars, avars>>

\* What a call on the queue, on the registry, and a step of a pass leave alone.
notQueue == <<rvars, pvars, svars, mvars, cvars, wvars, fvars, kvars, hvars, bvars, avars>>

notRegistry == <<qvars, pvars, svars, mvars, cvars, wvars, fvars, kvars, hvars, bvars, avars>>

notPipeline == <<qvars, rvars, svars, mvars, cvars, wvars, fvars, kvars, hvars, bvars, avars>>

\* What a call on a contact note, on the manager's registry, and on the
\* frontmatter codec leave alone.
notSync == <<qvars, rvars, pvars, mvars, cvars, wvars, fvars, kvars, hvars, bvars, avars>>

notManager == <<qvars, rvars, pvars, svars, cvars, wvars, fvars, kvars, hvars, bvars, avars>>

notCodec == <<qvars, rvars, pvars, svars, mvars, wvars, fvars, kvars, hvars, bvars, avars>>

\* What a call on the write queue leaves alone.
notWrite == <<qvars, rvars, pvars, svars, mvars, cvars, fvars, kvars, hvars, bvars, avars>>

\* What a call on a VcardFile leaves alone.
notFile == <<qvars, rvars, pvars, svars, mvars, cvars, wvars, kvars, hvars, bvars, avars>>

\* What a call on the SyncWatcher, and a change of the watch folder, leave alone.
notWatcher == <<qvars, rvars, pvars, svars, mvars, cvars, wvars, fvars, hvars, bvars, avars>>

\* What a call on the contact cache indices leaves alone.
notCache == <<qvars, rvars, pvars, svars, mvars, cvars, wvars, fvars, kvars, bvars, avars>>

\* What a call on a batch progress object leaves alone.
notBatch == <<qvars, rvars, pvars, svars, mvars, cvars, wvars, fvars, kvars, hvars, avars>>

\* What a metadata-cache wait, and a change of the vault, leave alone.
notWaiter == <<qvars, rvars, pvars, svars, mvars, cvars, wvars, fvars, kvars, hvars, bvars>>

(***************************************************************************)
(* CuratorQueue                                                            *)
(***************************************************************************)

getPriority(runType) ==
    CASE runType = "IMMEDIATELY" -> 3
      [] runType = "UPCOMING"    -> 2
      [] runType = "IMPROVEMENT" -> 1
      [] OTHER                   -> 0

\* A comparator that orders equal priorities newest first.
compareNewestFirst(a, b) ==
    LET priorityDiff == getPriority(b.runType) - getPriority(a.runType)
    IN  IF priorityDiff # 0 THEN priorityDiff ELSE b.timestamp - a.timestamp

\* The comparator handed to Array.prototype.sort: negative when a sorts
\* before b.
compareItems(a, b) ==
    LET priorityDiff == getPriority(b.runType) - getPriority(a.runType)
    IN  IF priorityDiff # 0 THEN priorityDiff ELSE a.timestamp - b.timestamp

\* Array.prototype.sort is stable: x goes after every element that does not
\* sort after it.
RECURSIVE insertStable(_, _)
insertStable(s, x) ==
    IF s = <<>> THEN <<x>>
    ELSE IF compareItems(s[Len(s)], x) <= 0 THEN Append(s, x)
    ELSE Append(insertStable(SubSeq(s, 1, Len(s) - 1), x), s[Len(s)])

RECURSIVE sortQueue(_)
sortQueue(q) ==
    IF q = <<>> THEN <<>>
    ELSE insertStable(sortQueue(SubSeq(q, 1, Len(q) - 1)), q[Len(q)])

\* Array.prototype.findIndex with the predicate item.contact === contact
\* (object identity); 0 stands for JavaScript's -1.
findIndex(q, contact) ==
    IF \E i \in 1..Len(q) : q[i].contact = contact
    THEN CHOOSE i \in 1..Len(q) :
            /\ q[i].contact = contact
            /\ \A j \in 1..(i - 1) : q[j].contact # contact
    ELSE 0

\* enqueue that never looks for the contact and always pushes.
enqueueAlwaysPush(q, contact, runType, now) ==
    sortQueue(Append(q, [contact |-> contact, runType |-> runType, timestamp |-> now]))

\* enqueue that also replaces the entry on an equal priority (>= for >).
enqueueUpgradeOnTie(q, contact, runType, now) ==
    LET existing == findIndex(q, contact)
        updated ==
            IF existing # 0
            THEN IF getPriority(runType) >= getPriority(q[existing].runType)
                 THEN [q EXCEPT ![existing].runType = runType,
                                ![existing].timestamp = now]
                 ELSE q
            ELSE Append(q, [contact |-> contact, runType |-> runType, timestamp |-> now])
    IN  sortQueue(updated)

\* enqueue that sorts only after a push, not after an upgrade in place.
enqueueNoResort(q, contact, runType, now) ==
    LET existing == findIndex(q, contact)
    IN  IF existing # 0
        THEN IF getPriority(runType) > getPriority(q[existing].runType)
             THEN [q EXCEPT ![existing].runType = runType,
                            ![existing].timestamp = now]
             ELSE q
        ELSE sortQueue(Append(q, [contact |-> contact, runType |-> runType, timestamp |-> now]))

\* The queue after enqueue(contact, runType) when Date.now() gives now.
enqueue(q, contact, runType, now) ==
    LET existing == findIndex(q, contact)
        updated ==
            IF existing # 0
            THEN IF getPriority(runType) > getPriority(q[existing].runType)
                 THEN [q EXCEPT ![existing].runType = runType,
                                ![existing].timestamp = now]
                 ELSE q
            ELSE Append(q, [contact |-> contact, runType |-> runType, timestamp |-> now])
    IN  sortQueue(updated)

Enqueue ==
    \E contact \in ContactObjs, runType \in RunTypes, now \in 0..MaxTime :
        /\ queue' = enqueue(queue, contact, runType, now)
        /\ qcall' = [op |-> "enqueue", contact |-> contact, runType |-> runType,
                     now |-> now,
                     oldRunType |-> IF findIndex(queue, contact) = 0 THEN "none"
                                    ELSE queue[findIndex(queue, contact)].runType]
        /\ qret' = Undefined
        /\ UNCHANGED <<isProcessing, activeContact, notQueue>>

\* A dequeue that hands nothing out while the queue is marked as processing.
DequeueWhenIdle ==
    /\ queue' = IF queue = <<>> \/ isProcessing THEN queue ELSE Tail(queue)
    /\ qcall' = [op |-> "dequeue"]
    /\ qret' = IF queue = <<>> \/ isProcessing THEN Undefined
               ELSE [kind |-> "item", item |-> Head(queue)]
    /\ UNCHANGED <<isProcessing, activeContact, notQueue>>

\* Array.prototype.shift: removes and returns the first element, undefined
\* on an empty array.
Dequeue ==
    /\ queue' = IF queue = <<>> THEN <<>> ELSE Tail(queue)
    /\ qcall' = [op |-> "dequeue"]
    /\ qret' = IF queue = <<>> THEN Undefined ELSE [kind |-> "item", item |-> Head(queue)]
    /\ UNCHANGED <<isProcessing, activeContact, notQueue>>

Peek ==
    /\ qcall' = [op |-> "peek"]
    /\ qret' = IF queue = <<>> THEN Undefined ELSE [kind |-> "item", item |-> Head(queue)]
    /\ UNCHANGED <<queue, isProcessing, activeContact, notQueue>>

Clear ==
    /\ queue' = <<>>
    /\ qcall' = [op |-> "clear"]
    /\ qret' = Undefined
    /\ UNCHANGED <<isProcessing, activeContact, notQueue>>

\* setProcessing(true, name) and setProcessing(false), whose contactName
\* defaults to null.
SetProcessing ==
    \E processing \in BOOLEAN, contactName \in ContactNames :
        /\ processing <=> contactName # "null"
        /\ isProcessing' = processing
        /\ activeContact' = contactName
        /\ qcall' = [op |-> "setProcessing"]
        /\ qret' = Undefined
        /\ UNCHANGED <<queue, notQueue>>

QNext == Enqueue \/ Dequeue \/ Peek \/ Clear \/ SetProcessing

(***************************************************************************)
(* ProcessorRegistry                                                       *)
(***************************************************************************)

\* Processor names, and the longest dependency list a descriptor carries.
ProcessorNames == {"a", "b", "c"}

MaxDeps == 1

\* The dependency lists a descriptor may carry: names without repetition, a
\* processor's own name and unregistered names included.
DependencyLists ==
    UNION {{d \in [1..n -> ProcessorNames] :
                \A i, j \in 1..n : i # j => d[i] # d[j]} : n \in 0..MaxDeps}

\* The CuratorProcessor descriptors a caller may register: the name and the
\* dependencies are what the registry reads.
Descriptors == [name : ProcessorNames, dependencies : DependencyLists]

\* Map.has, Map.get and the position of a key in the Map.
has(procs, name) == \E i \in 1..Len(procs) : procs[i].name = name

keyIndex(procs, name) == CHOOSE i \in 1..Len(procs) : procs[i].name = name

get(procs, name) == IF has(procs, name) THEN procs[keyIndex(procs, name)] ELSE Undefined

\* getAll: Array.from(values), in insertion order.
getAll(procs) == procs

\* register that merges the old dependency list into the new descriptor.
registerMerging(procs, processor) ==
    IF has(procs, processor.name)
    THEN LET old == procs[keyIndex(procs, processor.name)].dependencies
             extra == SelectSeq(old, LAMBDA d :
                          \A i \in 1..Len(processor.dependencies) :
                              processor.dependencies[i] # d)
         IN  [procs EXCEPT ![keyIndex(procs, processor.name)] =
                 [processor EXCEPT !.dependencies = processor.dependencies \o extra]]
    ELSE Append(procs, processor)

\* Map.set (register also warns on the console when the name is taken, which
\* the Register action records): a new key goes last, an existing key keeps its place and takes
\* the new value.
register(procs, processor) ==
    IF has(procs, processor.name)
    THEN [procs EXCEPT ![keyIndex(procs, processor.name)] = processor]
    ELSE Append(procs, processor)

\* Map.delete.
remove(procs, name) == SelectSeq(procs, LAMBDA p : p.name # name)

\* getSorted's helper addProcessor and its loop over processor.dependencies.
\* st is <sorted, added>; st.overflow is set when the recursion is deeper than
\* the number of registered processors: a name is then on the call stack
\* twice with nothing added in between, so the recursion never returns and
\* ends in the engine's RangeError (maximum call stack size exceeded).
RECURSIVE addProcessor(_, _, _, _)
RECURSIVE addDependencies(_, _, _, _, _)
addProcessor(procs, st, processor, depth) ==
    IF st.overflow THEN st
    ELSE IF depth > Len(procs) THEN [st EXCEPT !.overflow = TRUE]
    ELSE IF processor.name \in st.added THEN st
    ELSE LET afterDeps == addDependencies(procs, st, processor.dependencies, 1, depth)
         IN  IF afterDeps.overflow THEN afterDeps
             ELSE [sorted |-> Append(afterDeps.sorted, processor),
                   added |-> afterDeps.added \cup {processor.name},
                   overflow |-> FALSE]

addDependencies(procs, st, deps, i, depth) ==
    IF st.overflow \/ i > Len(deps) THEN st
    ELSE IF has(procs, deps[i]) /\ deps[i] \notin st.added
         THEN addDependencies(procs,
                  addProcessor(procs, st, get(procs, deps[i]), depth + 1),
                  deps, i + 1, depth)
         ELSE addDependencies(procs, st, deps, i + 1, depth)

\* The loop "for (const processor of processors) addProcessor(processor)".
RECURSIVE addAll(_, _, _)
addAll(procs, st, i) ==
    IF i > Len(procs) THEN st
    ELSE addAll(procs, addProcessor(procs, st, getAll(procs)[i], 1), i + 1)

\* getSorted that returns the processors in registration order.
getSortedRegistrationOrder(procs) == [kind |-> "array", value |-> getAll(procs)]

\* getSorted that leaves out a processor naming an unregistered dependency.
getSortedDropsDependents(procs) ==
    LET st == addAll(procs, [sorted |-> <<>>, added |-> {}, overflow |-> FALSE], 1)
    IN  IF st.overflow THEN [kind |-> "RangeError"]
        ELSE [kind |-> "array",
              value |-> SelectSeq(st.sorted, LAMBDA p :
                            \A i \in 1..Len(p.dependencies) : has(procs, p.dependencies[i]))]

\* What getSorted gives its caller: the sorted array, or the RangeError of a
\* recursion that never returns.
getSorted(procs) ==
    LET st == addAll(procs, [sorted |-> <<>>, added |-> {}, overflow |-> FALSE], 1)
    IN  IF st.overflow THEN [kind |-> "RangeError"]
        ELSE [kind |-> "array", value |-> st.sorted]

RegisterProcessor(processor) ==
    /\ processors' = register(processors, processor)
    /\ rcall' = [op |-> "register", processor |-> processor,
                 warned |-> has(processors, processor.name)]
    /\ rret' = Undefined
    /\ UNCHANGED notRegistry

Register == \E processor \in Descriptors : RegisterProcessor(processor)

Remove ==
    \E name \in ProcessorNames :
        /\ processors' = remove(processors, name)
        /\ rcall' = [op |-> "remove", name |-> name]
        /\ rret' = [kind |-> "boolean", value |-> has(processors, name)]
        /\ UNCHANGED notRegistry

ClearRegistry ==
    /\ processors' = <<>>
    /\ rcall' = [op |-> "clear"]
    /\ rret' = Undefined
    /\ UNCHANGED notRegistry

GetSorted ==
    /\ rcall' = [op |-> "getSorted"]
    /\ rret' = getSorted(processors)
    /\ UNCHANGED <<processors, notRegistry>>

RNext == Register \/ Remove \/ ClearRegistry \/ GetSorted

(***************************************************************************)
(* One pipeline pass over one contact                                      *)
(***************************************************************************)

\* The contact record of a pass, reduced to the fields the processors set:
\* one field per processor, named after it.
Records == SUBSET ProcessorNames

\* shouldRun of a processor: its own field is missing and the fields of the
\* processors it depends on are there (as uidProcessor runs when UID is
\* missing and genderRenderProcessor when GENDER is set).
gate(processor, rec) ==
    /\ processor.name \notin rec
    /\ \A i \in 1..Len(processor.dependencies) : processor.dependencies[i] \in rec

\* process of a processor: it sets its field on the record.
mutate(processor, rec) == rec \cup {processor.name}

\* Registration while no pass runs; the pipeline is set up with one
\* descriptor per name.
SetUp ==
    /\ pc = "idle"
    /\ \E processor \in Descriptors :
          /\ ~has(processors, processor.name)
          /\ RegisterProcessor(processor)

\* The orchestrator takes a contact and obtains the resolved order.
StartPass ==
    /\ pc = "idle"
    /\ \E rec \in Records :
          LET sorted == getSorted(processors)
          IN  IF sorted.kind = "array"
              THEN /\ pc' = "gate"
                   /\ order' = sorted.value
                   /\ idx' = 1
                   /\ record' = rec
                   /\ trace' = <<[ev |-> "start", record |-> rec]>>
              ELSE /\ pc' = "failed"
                   /\ order' = <<>>
                   /\ idx' = 0
                   /\ record' = rec
                   /\ trace' = <<[ev |-> "start", record |-> rec]>>
    /\ UNCHANGED notPipeline

\* It calls the gate of the processor at idx.
Gate ==
    /\ pc = "gate"
    /\ idx <= Len(order)
    /\ LET result == gate(order[idx], record)
       IN  /\ trace' = Append(trace, [ev |-> "gate", name |-> order[idx].name,
                                      seen |-> record, result |-> result])
           /\ pc' = IF result THEN "mutate" ELSE "gate"
           /\ idx' = IF result THEN idx ELSE idx + 1
    /\ UNCHANGED <<order, record, notPipeline>>

\* The gate was true: it calls mutate on the same record.
Mutate ==
    /\ pc = "mutate"
    /\ record' = mutate(order[idx], record)
    /\ trace' = Append(trace, [ev |-> "mutate", name |-> order[idx].name])
    /\ idx' = idx + 1
    /\ pc' = "gate"
    /\ UNCHANGED <<order, notPipeline>>

\* Every processor of the order was visited.
FinishPass ==
    /\ pc = "gate"
    /\ idx > Len(order)
    /\ pc' = "done"
    /\ UNCHANGED <<order, idx, record, trace, notPipeline>>

\* The record goes back to the caller; nothing of the pass is kept.
HandBack ==
    /\ pc \in {"done", "failed"}
    /\ pc' = "idle"
    /\ order' = <<>>
    /\ idx' = 0
    /\ record' = {}
    /\ trace' = <<>>
    /\ UNCHANGED notPipeline

PNext == SetUp \/ StartPass \/ Gate \/ Mutate \/ FinishPass \/ HandBack

(***************************************************************************)
(* Relationships: words, references and the gender tables                  *)
(* (models/contactNote/relationships.ts)                                   *)
(***************************************************************************)

\* The words of the model, each as <<lower case, upper case, capitalised>>.
CaseForms ==
    { <<"related", "RELATED", "Related">>, <<"notes", "NOTES", "Notes">>,
      <<"mother", "MOTHER", "Mother">>, <<"mom", "MOM", "Mom">>,
      <<"father", "FATHER", "Father">>, <<"dad", "DAD", "Dad">>,
      <<"sister", "SISTER", "Sister">>, <<"brother", "BROTHER", "Brother">>,
      <<"son", "SON", "Son">>, <<"daughter", "DAUGHTER", "Daughter">>,
      <<"husband", "HUSBAND", "Husband">>, <<"wife", "WIFE", "Wife">>,
      <<"boyfriend", "BOYFRIEND", "Boyfriend">>,
      <<"girlfriend", "GIRLFRIEND", "Girlfriend">>,
      <<"parent", "PARENT", "Parent">>, <<"sibling", "SIBLING", "Sibling">>,
      <<"child", "CHILD", "Child">>, <<"spouse", "SPOUSE", "Spouse">>,
      <<"partner", "PARTNER", "Partner">>, <<"friend", "FRIEND", "Friend">>,
      <<"m", "M", "M">>, <<"f", "F", "F">> }

FormsOf(w) == {f \in CaseForms : w \in {f[1], f[2], f[3]}}

\* String.prototype.toLowerCase and toUpperCase on those words.
toLowerCase(w) == IF FormsOf(w) = {} THEN w ELSE (CHOOSE f \in FormsOf(w) : TRUE)[1]

toUpperCase(w) == IF FormsOf(w) = {} THEN w ELSE (CHOOSE f \in FormsOf(w) : TRUE)[2]

\* A string is a recognised prefix followed by the rest ("" when it starts
\* with none of the prefixes parseUIDReference looks for).
Ref(prefix, id) == [prefix |-> prefix, id |-> id]

Str(s) == Ref("", s)

\* A missing or empty targetName / targetUID: both are falsy.
NoName == ""

Relationship(type, targetUID, targetName, namespace) ==
    [type |-> type, targetUID |-> targetUID, targetName |-> targetName,
     namespace |-> namespace]

\* A parse that does not know the name: prefix.
parseUIDReferenceNoName(reference) ==
    IF reference.prefix = "urn:uuid:" THEN [namespace |-> "urn:uuid", uid |-> reference.id]
    ELSE [namespace |-> "uid", uid |-> reference.id]

parseUIDReference(reference) ==
    IF reference.prefix = "urn:uuid:" THEN [namespace |-> "urn:uuid", uid |-> reference.id]
    ELSE IF reference.prefix = "uid:" THEN [namespace |-> "uid", uid |-> reference.id]
    ELSE IF reference.prefix = "name:" THEN [namespace |-> "name", uid |-> reference.id]
    ELSE [namespace |-> "uid", uid |-> reference.id]

formatUIDReference(relationship) ==
    IF relationship.namespace = "urn:uuid"
    THEN Ref("urn:uuid:", relationship.targetUID)
    ELSE IF relationship.namespace = "name"
    THEN Ref("name:", IF relationship.targetName # NoName
                      THEN relationship.targetName ELSE relationship.targetUID)
    ELSE Ref("uid:", relationship.targetUID)

normalizeRelationshipType(type) ==
    LET t == toLowerCase(type)
    IN  CASE t \in {"mother", "mom", "father", "dad"} -> "parent"
          [] t \in {"sister", "brother"} -> "sibling"
          [] t \in {"son", "daughter"} -> "child"
          [] t \in {"husband", "wife"} -> "spouse"
          [] t \in {"boyfriend", "girlfriend"} -> "partner"
          [] OTHER -> t

\* A table whose spouse row is the wrong way round.
getGenderedRelationshipTypeSwapped(type, gender) ==
    LET normalizedType == toLowerCase(type)
        genderUpper == toUpperCase(gender)
    IN  CASE normalizedType = "parent" /\ genderUpper = "M" -> "father"
          [] normalizedType = "parent" /\ genderUpper = "F" -> "mother"
          [] normalizedType = "sibling" /\ genderUpper = "M" -> "brother"
          [] normalizedType = "sibling" /\ genderUpper = "F" -> "sister"
          [] normalizedType = "child" /\ genderUpper = "M" -> "son"
          [] normalizedType = "child" /\ genderUpper = "F" -> "daughter"
          [] normalizedType = "spouse" /\ genderUpper = "M" -> "wife"
          [] normalizedType = "spouse" /\ genderUpper = "F" -> "husband"
          [] normalizedType = "partner" /\ genderUpper = "M" -> "boyfriend"
          [] normalizedType = "partner" /\ genderUpper = "F" -> "girlfriend"
          [] OTHER -> type

getGenderedRelationshipType(type, gender) ==
    LET normalizedType == toLowerCase(type)
        genderUpper == toUpperCase(gender)
    IN  CASE normalizedType = "parent" /\ genderUpper = "M" -> "father"
          [] normalizedType = "parent" /\ genderUpper = "F" -> "mother"
          [] normalizedType = "sibling" /\ genderUpper = "M" -> "brother"
          [] normalizedType = "sibling" /\ genderUpper = "F" -> "sister"
          [] normalizedType = "child" /\ genderUpper = "M" -> "son"
          [] normalizedType = "child" /\ genderUpper = "F" -> "daughter"
          [] normalizedType = "spouse" /\ genderUpper = "M" -> "husband"
          [] normalizedType = "spouse" /\ genderUpper = "F" -> "wife"
          [] normalizedType = "partner" /\ genderUpper = "M" -> "boyfriend"
          [] normalizedType = "partner" /\ genderUpper = "F" -> "girlfriend"
          [] OTHER -> type

\* The inferred gender, or NoName for undefined.
inferGenderFromType(type) ==
    LET t == toLowerCase(type)
    IN  CASE t \in {"mother", "mom", "sister", "daughter", "wife", "girlfriend"} -> "F"
          [] t \in {"father", "dad", "brother", "son", "husband", "boyfriend"} -> "M"
          [] OTHER -> NoName

(***************************************************************************)
(* The frontmatter codec (parseRelatedFrontmatter,                         *)
(* generateRelatedFrontmatter)                                             *)
(***************************************************************************)

\* A frontmatter object is the sequence of its entries in insertion order.
\* A key is RELATED.<type>, RELATED.<type>.<index>, or a plain field name;
\* NoIndex marks a key without ".<index>".
NoIndex == -1

RelatedKey(type, index) == [field |-> "RELATED", type |-> type, index |-> index]

PlainKey(name) == [field |-> name, type |-> "", index |-> NoIndex]

Entry(key, value) == [key |-> key, value |-> value]

\* key.startsWith('RELATED.') and the key pattern of parseRelatedFrontmatter.
isRelatedKey(key) == key.field = "RELATED"

\* frontmatter[key] = value: a key the object has keeps its place.
setKey(frontmatter, key, value) ==
    IF \E i \in 1..Len(frontmatter) : frontmatter[i].key = key
    THEN [i \in 1..Len(frontmatter) |->
             IF frontmatter[i].key = key THEN Entry(key, value) ELSE frontmatter[i]]
    ELSE Append(frontmatter, Entry(key, value))

\* Object.assign(target, source)
RECURSIVE assign(_, _)
assign(target, source) ==
    IF source = <<>> THEN target
    ELSE assign(setKey(target, Head(source).key, Head(source).value), Tail(source))

RECURSIVE Flatten(_)
Flatten(seqs) == IF seqs = <<>> THEN <<>> ELSE Head(seqs) \o Flatten(Tail(seqs))

\* A parse that returns the name of a name: reference as targetName.
parseRelatedFrontmatterNamed(frontmatter) ==
    LET related == SelectSeq(frontmatter, LAMBDA e : isRelatedKey(e.key))
    IN  [i \in 1..Len(related) |->
            LET ref == parseUIDReference(related[i].value)
            IN  IF ref.namespace = "name"
                THEN Relationship(toLowerCase(related[i].key.type), "", ref.uid, "name")
                ELSE Relationship(toLowerCase(related[i].key.type), ref.uid, NoName,
                                  ref.namespace)]

parseRelatedFrontmatter(frontmatter) ==
    LET related == SelectSeq(frontmatter, LAMBDA e : isRelatedKey(e.key))
    IN  [i \in 1..Len(related) |->
            LET ref == parseUIDReference(related[i].value)
            IN  Relationship(toLowerCase(related[i].key.type), ref.uid, NoName,
                             ref.namespace)]

\* The keys of the byType Map, in the order of their first insertion.
RECURSIVE typesInOrder(_, _)
typesInOrder(relationships, seen) ==
    IF relationships = <<>> THEN <<>>
    ELSE LET type == toUpperCase(Head(relationships).type)
         IN  IF type \in seen
             THEN typesInOrder(Tail(relationships), seen)
             ELSE <<type>> \o typesInOrder(Tail(relationships), seen \cup {type})

\* A generate that never numbers the keys of a type.
generateBareKeys(relationships) ==
    assign(<<>>, [i \in 1..Len(relationships) |->
                    Entry(RelatedKey(toUpperCase(relationships[i].type), NoIndex),
                          formatUIDReference(relationships[i]))])

generateRelatedFrontmatter(relationships) ==
    LET types == typesInOrder(relationships, {})
        rels(type) == SelectSeq(relationships, LAMBDA r : toUpperCase(r.type) = type)
        emit(type) ==
            IF Len(rels(type)) = 1
            THEN <<Entry(RelatedKey(type, NoIndex), formatUIDReference(rels(type)[1]))>>
            ELSE [i \in 1..Len(rels(type)) |->
                     Entry(RelatedKey(type, i - 1), formatUIDReference(rels(type)[i]))]
    IN  assign(<<>>, Flatten([t \in 1..Len(types) |-> emit(types[t])]))

(***************************************************************************)
(* Markdown text (models/contactNote/markdown.ts)                          *)
(***************************************************************************)

\* A string is the sequence of its lines (the string split at "\n"): the
\* empty string is one empty line, and a string ending in "\n" ends with an
\* empty line.  s \o t is therefore s + "\n" + t.
HeadingLine(title) == [kind |-> "heading", word |-> title, name |-> ""]

ItemLine(type, target) == [kind |-> "item", word |-> type, name |-> target]

BlankLine == [kind |-> "blank", word |-> "", name |-> ""]

TextLine == [kind |-> "text", word |-> "", name |-> ""]

EmptyString == <<BlankLine>>

\* The value null.
Null == <<>>

\* /^#{1,6}\s+/m on one line.
isHeading(line) == line.kind = "heading"

\* The first part of /^#{1,6}\s+<heading>\s*$/im: the line is a heading
\* whose title is <heading> in any letter case.
matchesHeading(line, heading) ==
    /\ isHeading(line)
    /\ toLowerCase(line.word) = toLowerCase(heading)

\* The first position from `from` on of a line for which test holds, or 0.
FirstLine(text, from, test(_)) ==
    IF \E i \in from..Len(text) : test(text[i])
    THEN CHOOSE i \in from..Len(text) :
            /\ test(text[i])
            /\ \A j \in from..(i - 1) : ~test(text[j])
    ELSE 0

\* headingRegex.exec(content): the first matching heading line, and the last
\* line of the match.  \s*$ is greedy and \s matches "\n", so the match runs
\* on over the empty lines that follow the heading, up to the end of the
\* last of them.
execHeading(content, heading) ==
    LET index == FirstLine(content, 1, LAMBDA l : matchesHeading(l, heading))
        stop == FirstLine(content, index + 1, LAMBDA l : l.kind # "blank")
    IN  IF index = 0 THEN Null
        ELSE <<[index |-> index,
                end |-> IF stop = 0 THEN Len(content) ELSE stop - 1]>>

\* content.substring(match.index + match[0].length): what is left of the
\* last line of the match (nothing), then the lines after it.
afterHeading(content, match) ==
    <<BlankLine>> \o SubSeq(content, match.end + 1, Len(content))

\* afterHeading.match(/^#{1,6}\s+/m): the position of the next heading
\* line, or 0.  The first line of afterHeading is empty.
nextHeadingMatch(after) == FirstLine(after, 1, isHeading)

\* afterHeading.substring(0, sectionEnd)
sectionContent(after) ==
    IF nextHeadingMatch(after) = 0 THEN after
    ELSE SubSeq(after, 1, nextHeadingMatch(after) - 1) \o EmptyString

\* afterHeading.substring(sectionEnd)
afterSection(after) ==
    IF nextHeadingMatch(after) = 0 THEN EmptyString
    ELSE SubSeq(after, nextHeadingMatch(after), Len(after))

\* String.prototype.trim: the lines of the model have no white space of
\* their own, so it removes the empty lines at both ends.
trim(text) ==
    LET first == FirstLine(text, 1, LAMBDA l : l.kind # "blank")
        last == IF first = 0 THEN 0
                ELSE CHOOSE i \in first..Len(text) :
                        /\ text[i].kind # "blank"
                        /\ \A j \in (i + 1)..Len(text) : text[j].kind = "blank"
    IN  IF first = 0 THEN EmptyString ELSE SubSeq(text, first, last)

\* The section's trimmed content, or null.
findSectionByHeading(content, heading) ==
    LET match == execHeading(content, heading)
    IN  IF match = Null THEN Null
        ELSE trim(sectionContent(afterHeading(content, match[1])))

\* if (existingSection): null and the empty string are falsy.
truthy(string) == string # Null /\ string # EmptyString

\* A replace that takes the section to run to the end of the text.
replaceSectionToEnd(content, heading, newContent) ==
    LET match == execHeading(content, heading)
    IN  IF match = Null
        THEN content \o EmptyString \o newContent
        ELSE SubSeq(content, 1, match[1].end) \o newContent \o EmptyString

replaceSectionByHeading(content, heading, newContent) ==
    LET match == execHeading(content, heading)
    IN  IF match = Null
        THEN content \o EmptyString \o newContent
        ELSE LET before == SubSeq(content, 1, match[1].end)
                 after == afterSection(afterHeading(content, match[1]))
             IN  before \o newContent \o after

findRelatedHeading(content) == execHeading(content, "related")

\* listItemRegex: "- <\w+> [[<one or more characters>]]" at a line start.
isListItem(line) == line.kind = "item" /\ line.word # "" /\ line.name # ""

parseRelatedSection(content) ==
    LET headingMatch == findRelatedHeading(content)
    IN  IF headingMatch = Null THEN <<>>
        ELSE LET section == sectionContent(afterHeading(content, headingMatch[1]))
                 items == SelectSeq(section, isListItem)
             IN  [i \in 1..Len(items) |->
                     Relationship(toLowerCase(items[i].word), "", items[i].name, "name")]

generateRelatedSection(relationships) ==
    IF Len(relationships) = 0 THEN EmptyString
    ELSE <<HeadingLine("Related"), BlankLine>> \o
         [i \in 1..Len(relationships) |->
             ItemLine(relationships[i].type,
                      IF relationships[i].targetName # NoName
                      THEN relationships[i].targetName
                      ELSE relationships[i].targetUID)]

(***************************************************************************)
(* The standard processors (curators/*.ts) on a ContactNote                *)
(***************************************************************************)

ContactNote(frontmatter, content) == [frontmatter |-> frontmatter, content |-> content]

\* frontmatter[name], the empty string standing for undefined as well.
field(frontmatter, name) ==
    LET hits == SelectSeq(frontmatter, LAMBDA e : e.key = PlainKey(name))
    IN  IF hits = <<>> THEN Str("") ELSE hits[1].value

\* A gate that lets the identifier processor run on every contact.
uidShouldRunAlways(contact) == TRUE

uidShouldRun(contact) == field(contact.frontmatter, "UID") = Str("")

uidProcess(contact, uuid) ==
    ContactNote(setKey(contact.frontmatter, PlainKey("UID"), Ref("urn:uuid:", uuid)),
                contact.content)

relatedFrontMatterShouldRun(contact) == TRUE

\* A Text->Fields mutate that keeps the RELATED fields it finds.
relatedFrontMatterProcessAdditive(contact) ==
    ContactNote(assign(contact.frontmatter,
                       generateRelatedFrontmatter(parseRelatedSection(contact.content))),
                contact.content)

\* A Text->Fields mutate that starts from an empty frontmatter.
relatedFrontMatterProcessFresh(contact) ==
    ContactNote(generateRelatedFrontmatter(parseRelatedSection(contact.content)),
                contact.content)

relatedFrontMatterProcess(contact) ==
    LET relationships == parseRelatedSection(contact.content)
        relatedFields == generateRelatedFrontmatter(relationships)
        kept == SelectSeq(contact.frontmatter, LAMBDA e : ~isRelatedKey(e.key))
    IN  ContactNote(assign(kept, relatedFields), contact.content)

relatedListShouldRun(contact) == TRUE

\* A Fields->Text mutate that appends the heading even for an empty list.
relatedListProcessBareHeading(contact) ==
    LET relationships == parseRelatedFrontmatter(contact.frontmatter)
        relatedSection == <<HeadingLine("Related"), BlankLine>> \o
                          [i \in 1..Len(relationships) |->
                              ItemLine(relationships[i].type, relationships[i].targetUID)]
        existingSection == findSectionByHeading(contact.content, "Related")
    IN  IF truthy(existingSection)
        THEN ContactNote(contact.frontmatter,
                         replaceSectionByHeading(contact.content, "Related", relatedSection))
        ELSE ContactNote(contact.frontmatter,
                         trim(contact.content) \o EmptyString \o relatedSection)

relatedListProcess(contact) ==
    LET relationships == parseRelatedFrontmatter(contact.frontmatter)
        relatedSection == generateRelatedSection(relationships)
        existingSection == findSectionByHeading(contact.content, "Related")
    IN  IF Len(relationships) = 0 THEN contact
        ELSE IF truthy(existingSection)
        THEN ContactNote(contact.frontmatter,
                         replaceSectionByHeading(contact.content, "Related", relatedSection))
        ELSE ContactNote(contact.frontmatter,
                         trim(contact.content) \o EmptyString \o relatedSection)

genderInferenceShouldRun(contact) ==
    /\ Len(parseRelatedSection(contact.content)) > 0
    /\ field(contact.frontmatter, "GENDER") = Str("")

\* An inference in which the last telling relationship wins.
genderInferenceProcessLast(contact) ==
    LET relationships == parseRelatedSection(contact.content)
        telling == SelectSeq(relationships, LAMBDA r : inferGenderFromType(r.type) # NoName)
    IN  IF telling = <<>> THEN contact
        ELSE ContactNote(setKey(contact.frontmatter, PlainKey("GENDER"),
                                Str(inferGenderFromType(telling[Len(telling)].type))),
                         contact.content)

genderInferenceProcess(contact) ==
    LET relationships == parseRelatedSection(contact.content)
        telling == SelectSeq(relationships, LAMBDA r : inferGenderFromType(r.type) # NoName)
    IN  IF telling = <<>> THEN contact
        ELSE ContactNote(setKey(contact.frontmatter, PlainKey("GENDER"),
                                Str(inferGenderFromType(telling[1].type))),
                         contact.content)

genderRenderShouldRun(contact) ==
    /\ field(contact.frontmatter, "GENDER") # Str("")
    /\ Len(parseRelatedSection(contact.content)) > 0

genderRenderProcess(contact) ==
    LET gender == field(contact.frontmatter, "GENDER")
        relationships == parseRelatedSection(contact.content)
        genderedRelationships ==
            [i \in 1..Len(relationships) |->
                [relationships[i] EXCEPT
                    !.type = getGenderedRelationshipType(relationships[i].type, gender.id)]]
        relatedSection == generateRelatedSection(genderedRelationships)
    IN  IF gender = Str("") THEN contact
        ELSE ContactNote(contact.frontmatter,
                         replaceSectionByHeading(contact.content, "Related", relatedSection))

\* The five processors CuratorManager.registerStandardProcessors registers,
\* in its order, with the dependencies they declare.
uidProcessor == [name |-> "uidProcessor", dependencies |-> <<>>]

relatedFrontMatterProcessor == [name |-> "relatedFrontMatterProcessor", dependencies |-> <<>>]

relatedListProcessor == [name |-> "relatedListProcessor", dependencies |-> <<>>]

genderInferenceProcessor ==
    [name |-> "genderInferenceProcessor", dependencies |-> <<"relatedFrontMatterProcessor">>]

genderRenderProcessor ==
    [name |-> "genderRenderProcessor", dependencies |-> <<"genderInferenceProcessor">>]

StandardProcessors ==
    {uidProcessor, relatedFrontMatterProcessor, relatedListProcessor,
     genderInferenceProcessor, genderRenderProcessor}

registerStandardProcessors(procs) ==
    register(register(register(register(register(procs,
        uidProcessor), relatedFrontMatterProcessor), relatedListProcessor),
        genderInferenceProcessor), genderRenderProcessor)

shouldRun(name, contact) ==
    CASE name = "uidProcessor" -> uidShouldRun(contact)
      [] name = "relatedFrontMatterProcessor" -> relatedFrontMatterShouldRun(contact)
      [] name = "relatedListProcessor" -> relatedListShouldRun(contact)
      [] name = "genderInferenceProcessor" -> genderInferenceShouldRun(contact)
      [] name = "genderRenderProcessor" -> genderRenderShouldRun(contact)

process(name, contact, uuid) ==
    CASE name = "uidProcessor" -> uidProcess(contact, uuid)
      [] name = "relatedFrontMatterProcessor" -> relatedFrontMatterProcess(contact)
      [] name = "relatedListProcessor" -> relatedListProcess(contact)
      [] name = "genderInferenceProcessor" -> genderInferenceProcess(contact)
      [] name = "genderRenderProcessor" -> genderRenderProcess(contact)

\* One pipeline pass over a contact: each processor of the resolved order is
\* asked its gate and, if the gate holds, mutates the contact.
RECURSIVE runProcessors(_, _, _)
runProcessors(sortedProcessors, contact, uuid) ==
    IF sortedProcessors = <<>> THEN contact
    ELSE LET name == Head(sortedProcessors).name
         IN  runProcessors(Tail(sortedProcessors),
                           IF shouldRun(name, contact)
                           THEN process(name, contact, uuid) ELSE contact,
                           uuid)

(***************************************************************************)
(* Calls on a contact note                                                 *)
(***************************************************************************)

\* The longest text a caller loads, in lines.
MaxLines == 3

\* The longest text a processor is still called on: a loaded text, or one
\* that a processor has written a section into.
MaxText == MaxLines + 2

LineVocab ==
    {HeadingLine("Related"), HeadingLine("Notes"), BlankLine, TextLine,
     ItemLine("mother", "Jane")}

InputTexts == UNION {[1..n -> LineVocab] : n \in 1..MaxLines}

\* The fields a loaded note may carry, in the order it carries them.
FieldVocab ==
    <<Entry(PlainKey("GENDER"), Str("F")),
      Entry(RelatedKey("PARENT", NoIndex), Ref("name:", "Jane")),
      Entry(RelatedKey("FRIEND", NoIndex), Ref("urn:uuid:", "b1"))>>

InputFrontmatters ==
    {SelectSeq(FieldVocab, LAMBDA e : e \in chosen) :
        chosen \in SUBSET {FieldVocab[i] : i \in 1..Len(FieldVocab)}}

InputNotes ==
    {ContactNote(frontmatter, content) :
        frontmatter \in InputFrontmatters, content \in InputTexts}

\* What generateUUID() may return.
UUIDs == {"uuid-1"}

\* A caller reads a note from the vault.
LoadNote ==
    /\ scall.op = "new"
    /\ \E contact \in InputNotes :
          /\ note' = contact
          /\ scall' = [op |-> "load", before |-> contact]
    /\ UNCHANGED notSync

\* processor.process(note), as the tests call it.
Process(name) ==
    /\ Len(note.content) <= MaxText
    /\ \E uuid \in UUIDs : note' = process(name, note, uuid)
    /\ scall' = [op |-> name, before |-> note]
    /\ UNCHANGED notSync

UidProcess == Process("uidProcessor")

RelatedFrontMatterProcess == Process("relatedFrontMatterProcessor")

RelatedListProcess == Process("relatedListProcessor")

GenderInferenceProcess == Process("genderInferenceProcessor")

GenderRenderProcess == Process("genderRenderProcessor")

\* One pass of the standard processors, in their resolved order.
RunProcessors ==
    /\ Len(note.content) <= MaxText
    /\ \E uuid \in UUIDs :
          note' = runProcessors(getSorted(registerStandardProcessors(<<>>)).value, note, uuid)
    /\ scall' = [op |-> "runProcessors", before |-> note]
    /\ UNCHANGED notSync

SNext ==
    \/ LoadNote
    \/ UidProcess
    \/ RelatedFrontMatterProcess
    \/ RelatedListProcess
    \/ GenderInferenceProcess
    \/ GenderRenderProcess
    \/ RunProcessors

(***************************************************************************)
(* The gender processors on a note that lists family relationships         *)
(***************************************************************************)

MaxItems == 2

\* The relationship types a user writes in the Related section: the gendered
\* terms, the genderless ones they are stored as, and one the tables do not
\* know.
GenderedTerms ==
    {"mother", "father", "sister", "brother", "son", "daughter",
     "husband", "wife", "boyfriend", "girlfriend"}

GenderlessTerms == {"parent", "sibling", "child", "spouse", "partner"}

FamilyTerms == GenderedTerms \union GenderlessTerms \union {"friend"}

\* The types of the relationships a section lists: none, or one of any type
\* followed by up to MaxItems - 1 of which one tells F, one tells M and one
\* tells nothing.
FamilyTypes ==
    {<<>>} \union
    {<<first>> \o rest :
        first \in FamilyTerms,
        rest \in UNION {[1..n -> {"mother", "father", "friend"}] : n \in 0..(MaxItems - 1)}}

\* A Related section as generateRelatedSection lays it out.
FamilyTexts ==
    {<<HeadingLine("Related"), BlankLine>> \o
         [i \in 1..Len(types) |-> ItemLine(types[i], "Jane")] :
        types \in FamilyTypes}

\* The fields of such a note: it may have a UID of its own and a GENDER.
FamilyFrontmatters ==
    {uid \o gender :
        uid \in {<<>>, <<Entry(PlainKey("UID"), Ref("urn:uuid:", "uuid-0"))>>},
        gender \in {<<>>, <<Entry(PlainKey("GENDER"), Str("F"))>>,
                    <<Entry(PlainKey("GENDER"), Str("M"))>>}}

FamilyNotes ==
    {ContactNote(frontmatter, content) :
        frontmatter \in FamilyFrontmatters, content \in FamilyTexts}

\* A caller reads a note with a Related section from the vault.
LoadFamily ==
    /\ scall.op = "new"
    /\ \E contact \in FamilyNotes :
          /\ note' = contact
          /\ scall' = [op |-> "load", before |-> contact]
    /\ UNCHANGED notSync

GNext ==
    \/ LoadFamily
    \/ UidProcess
    \/ GenderInferenceProcess
    \/ GenderRenderProcess
    \/ RunProcessors

(***************************************************************************)
(* WriteQueue (vcardManager/writeQueue.ts)                                 *)
(***************************************************************************)

MaxPending == 2

MaxWrites == 3

Paths == {"a.vcf", "b.vcf"}

Priorities == {0, 1}

\* The WriteOperations a caller enqueues when its clock shows now (data is
\* not read by the queue).  during is not a field of the operation: it
\* records whether the queue was being processed when it was enqueued.
WriteOperations(now, during) ==
    [path : Paths, priority : Priorities, timestamp : {now}, during : {during}]

\* The invocations of processQueue that may be under way at once.
Callers == {"p1", "p2"}

\* An invocation that is not under way.
Returned == [pc |-> "returned", operation |-> Null]

\* An enqueue that goes before the pending operations of its own priority.
insertBeforeEqual(q, operation) ==
    LET lower == {i \in 1..Len(q) : q[i].priority <= operation.priority}
        insertIndex == IF lower = {} THEN 0
                       ELSE CHOOSE i \in lower : \A j \in lower : i <= j
    IN  IF insertIndex = 0 THEN Append(q, operation)
        ELSE SubSeq(q, 1, insertIndex - 1) \o <<operation>> \o SubSeq(q, insertIndex, Len(q))

\* enqueue: before the first pending operation of lower priority, or last.
insertByPriority(q, operation) ==
    LET lower == {i \in 1..Len(q) : q[i].priority < operation.priority}
        insertIndex == IF lower = {} THEN 0
                       ELSE CHOOSE i \in lower : \A j \in lower : i <= j
    IN  IF insertIndex = 0 THEN Append(q, operation)
        ELSE SubSeq(q, 1, insertIndex - 1) \o <<operation>> \o SubSeq(q, insertIndex, Len(q))

WriteEnqueue ==
    /\ Len(writeQueue) < MaxPending
    /\ clock < MaxWrites
    /\ \E operation \in WriteOperations(clock + 1, writeProcessing) :
          writeQueue' = insertByPriority(writeQueue, operation)
    /\ clock' = clock + 1
    /\ owed' = TRUE
    /\ wcall' = [op |-> "enqueue"]
    /\ UNCHANGED <<writeProcessing, currentOperation, activePaths, calls, handed, notWrite>>

\* processQueue's loop from its head to the next await, or to its return:
\* q, active and current are the queue, the active paths and the current
\* operation at the head of the loop.
Loop(c, q, active, current) ==
    IF q = <<>>
    THEN /\ writeProcessing' = FALSE
         /\ writeQueue' = q
         /\ activePaths' = active
         /\ currentOperation' = current
         /\ calls' = [calls EXCEPT ![c] = Returned]
         /\ handed' = handed
    ELSE /\ writeProcessing' = TRUE
         /\ writeQueue' = Tail(q)
         /\ IF Head(q).path \in active
            THEN /\ activePaths' = active
                 /\ currentOperation' = current
                 /\ calls' = [calls EXCEPT ![c] = [pc |-> "sleeping", operation |-> <<Head(q)>>]]
                 /\ handed' = handed
            ELSE /\ activePaths' = active \union {Head(q).path}
                 /\ currentOperation' = <<Head(q)>>
                 /\ calls' = [calls EXCEPT ![c] = [pc |-> "writing", operation |-> <<Head(q)>>]]
                 /\ handed' = Append(handed, Head(q))

\* A processQueue that neither looks at the processing flag nor waits for
\* the path: it hands the first pending operation to the writer at once.
ProcessQueueUnguarded(c) ==
    /\ calls[c].pc = "returned"
    /\ wcall' = [op |-> "processQueue", caller |-> c, busy |-> writeProcessing]
    /\ owed' = FALSE
    /\ IF writeQueue = <<>>
       THEN UNCHANGED <<writeQueue, writeProcessing, currentOperation, activePaths, calls,
                        handed>>
       ELSE /\ writeProcessing' = TRUE
            /\ writeQueue' = Tail(writeQueue)
            /\ activePaths' = activePaths \union {Head(writeQueue).path}
            /\ currentOperation' = <<Head(writeQueue)>>
            /\ calls' = [calls EXCEPT ![c] = [pc |-> "writing",
                                              operation |-> <<Head(writeQueue)>>]]
            /\ handed' = Append(handed, Head(writeQueue))
    /\ UNCHANGED <<clock, notWrite>>

\* processQueue(writer) is called: it returns at once while another
\* invocation is processing, and otherwise runs to its first await.
ProcessQueue(c) ==
    /\ calls[c].pc = "returned"
    /\ wcall' = [op |-> "processQueue", caller |-> c, busy |-> writeProcessing]
    /\ owed' = FALSE
    /\ IF writeProcessing
       THEN UNCHANGED <<writeQueue, writeProcessing, currentOperation, activePaths, calls,
                        handed>>
       ELSE Loop(c, writeQueue, activePaths, currentOperation)
    /\ UNCHANGED <<clock, notWrite>>

\* The promise the writer returned settles: it resolves, or it rejects (the
\* writer throws).
WriterSettles(c) ==
    /\ calls[c].pc = "writing"
    /\ \E outcome \in {"resolved", "rejected"} :
          calls' = [calls EXCEPT ![c].pc = outcome]
    /\ wcall' = [op |-> "settle", caller |-> c]
    /\ UNCHANGED <<writeQueue, writeProcessing, currentOperation, activePaths, clock, handed,
                   owed, notWrite>>

\* A processQueue that gives up when the writer throws: it returns with the
\* path still marked and the flag still set.
ResumeUnlessFailed(c) ==
    /\ calls[c].pc \in {"resolved", "rejected"}
    /\ wcall' = [op |-> "resume", caller |-> c, after |-> calls[c].pc]
    /\ IF calls[c].pc = "resolved"
       THEN Loop(c, writeQueue, activePaths \ {calls[c].operation[1].path}, Null)
       ELSE /\ calls' = [calls EXCEPT ![c] = Returned]
            /\ UNCHANGED <<writeQueue, writeProcessing, currentOperation, activePaths,
                           handed>>
    /\ UNCHANGED <<clock, owed, notWrite>>

\* A processQueue that takes one operation and returns when its writer has
\* settled, without looking at the queue again.
ResumeAndReturn(c) ==
    /\ calls[c].pc \in {"resolved", "rejected"}
    /\ wcall' = [op |-> "resume", caller |-> c, after |-> calls[c].pc]
    /\ activePaths' = activePaths \ {calls[c].operation[1].path}
    /\ currentOperation' = Null
    /\ writeProcessing' = FALSE
    /\ calls' = [calls EXCEPT ![c] = Returned]
    /\ UNCHANGED <<writeQueue, handed, clock, owed, notWrite>>

\* The invocation goes on after its await: after the writer, through catch
\* (when it threw) and finally and round the loop; after sleep(100), to the
\* test of the path again.
Resume(c) ==
    /\ calls[c].pc \in {"resolved", "rejected", "sleeping"}
    /\ wcall' = [op |-> "resume", caller |-> c, after |-> calls[c].pc]
    /\ IF calls[c].pc \in {"resolved", "rejected"}
       THEN Loop(c, writeQueue, activePaths \ {calls[c].operation[1].path}, Null)
       ELSE Loop(c, calls[c].operation \o writeQueue, activePaths, currentOperation)
    /\ UNCHANGED <<clock, owed, notWrite>>

WriteClear ==
    /\ writeQueue' = <<>>
    /\ currentOperation' = Null
    /\ wcall' = [op |-> "clear"]
    /\ UNCHANGED <<writeProcessing, activePaths, calls, clock, handed, owed, notWrite>>

WNext ==
    \/ WriteEnqueue
    \/ \E c \in Callers : ProcessQueue(c)
    \/ \E c \in Callers : WriterSettles(c)
    \/ \E c \in Callers : Resume(c)
    \/ WriteClear

\* The write queue when clear is not called, processQueue is called at or
\* after every enqueue, and every writer settles.
LNext ==
    \/ WriteEnqueue
    \/ \E c \in Callers : ProcessQueue(c)
    \/ \E c \in Callers : WriterSettles(c)
    \/ \E c \in Callers : Resume(c)

WriteFairness ==
    /\ WF_vars(owed /\ \E c \in Callers : ProcessQueue(c))
    /\ \A c \in Callers : WF_vars(WriterSettles(c)) /\ WF_vars(Resume(c))

(***************************************************************************)
(* The manager's registry with the standard processors                     *)
(***************************************************************************)

\* registry.register(processor) for one of the standard processors.
RegisterStandard ==
    /\ \E processor \in StandardProcessors :
          manager' = register(manager, processor)
    /\ UNCHANGED <<mret, notManager>>

\* CuratorManager.registerStandardProcessors()
RegisterStandardProcessors ==
    /\ manager' = registerStandardProcessors(manager)
    /\ UNCHANGED <<mret, notManager>>

\* registry.clear()
ClearManager ==
    /\ manager' = <<>>
    /\ UNCHANGED <<mret, notManager>>

\* registry.getSorted()
GetSortedStandard ==
    /\ mret' = [registry |-> manager, sorted |-> getSorted(manager)]
    /\ UNCHANGED <<manager, notManager>>

MNext == RegisterStandard \/ RegisterStandardProcessors \/ ClearManager \/ GetSortedStandard

(***************************************************************************)
(* Calls on the frontmatter codec                                          *)
(***************************************************************************)

\* The longest relationship list a caller builds.
MaxRels == 2

RelationshipVocab ==
    {Relationship(type, uid, NoName, namespace) :
        type \in {"friend", "parent", "Friend"}, uid \in {"u1", "u2"},
        namespace \in {"urn:uuid", "uid"}}
    \cup
    {Relationship(type, "", targetName, "name") :
        type \in {"friend", "parent", "Friend"}, targetName \in {"Jane", "Bob"}}

RelationshipLists == UNION {[1..n -> RelationshipVocab] : n \in 0..MaxRels}

\* A caller builds a relationship list.
BuildList ==
    /\ list = <<>> /\ fields = <<>>
    /\ \E relationships \in RelationshipLists : list' = relationships
    /\ fields' = <<>>
    /\ parsed' = <<>>
    /\ UNCHANGED notCodec

\* fields = generateRelatedFrontmatter(list)
Generate ==
    /\ fields = <<>>
    /\ fields' = <<generateRelatedFrontmatter(list)>>
    /\ UNCHANGED <<list, parsed, notCodec>>

\* parsed = parseRelatedFrontmatter(fields)
Parse ==
    /\ fields # <<>>
    /\ parsed = <<>>
    /\ parsed' = <<parseRelatedFrontmatter(fields[1])>>
    /\ UNCHANGED <<list, fields, notCodec>>

CNext == BuildList \/ Generate \/ Parse

(***************************************************************************)
(* VcardFile (vcardFile/vcardFile.ts)                                      *)
(***************************************************************************)

\* The VCardData a caller passes: UID and FN, either of which may be missing
\* (the empty string).
ContactUIDs == {"", "u1", "u2"}

VCardDatas == [UID : ContactUIDs, FN : {"", "Ann", "Bob"}]

\* Array.prototype.findIndex(c => c.UID === uid); 0 for -1.
findIndexByUID(cs, uid) ==
    IF \E i \in 1..Len(cs) : cs[i].UID = uid
    THEN CHOOSE i \in 1..Len(cs) : cs[i].UID = uid /\ \A j \in 1..(i - 1) : cs[j].UID # uid
    ELSE 0

\* An addContact that always pushes.
addContactPush(cs, data) ==
    IF data.UID = "" \/ data.FN = ""
    THEN [contacts |-> cs, result |-> "throws"]
    ELSE [contacts |-> Append(cs, data), result |-> "void"]

\* addContact(data): the contacts afterwards, and whether it threw.
addContact(cs, data) ==
    IF data.UID = "" \/ data.FN = ""
    THEN [contacts |-> cs, result |-> "throws"]
    ELSE LET existingIndex == findIndexByUID(cs, data.UID)
         IN  [contacts |-> IF existingIndex > 0
                           THEN [cs EXCEPT ![existingIndex] = data]
                           ELSE Append(cs, data),
              result |-> "void"]

\* removeContact(uid): the contacts afterwards, and the value returned.
removeContact(cs, uid) ==
    LET index == findIndexByUID(cs, uid)
    IN  IF index > 0
        THEN [contacts |-> SubSeq(cs, 1, index - 1) \o SubSeq(cs, index + 1, Len(cs)),
              result |-> TRUE]
        ELSE [contacts |-> cs, result |-> FALSE]

AddContact ==
    /\ \E data \in VCardDatas :
          /\ contacts' = addContact(contacts, data).contacts
          /\ fcall' = [op |-> "addContact", data |-> data, before |-> contacts,
                       result |-> addContact(contacts, data).result]
    /\ UNCHANGED notFile

RemoveContact ==
    /\ \E uid \in ContactUIDs :
          /\ contacts' = removeContact(contacts, uid).contacts
          /\ fcall' = [op |-> "removeContact", uid |-> uid, before |-> contacts,
                       result |-> removeContact(contacts, uid).result]
    /\ UNCHANGED notFile

ClearFile ==
    /\ contacts' = <<>>
    /\ fcall' = [op |-> "clear", before |-> contacts, result |-> "void"]
    /\ UNCHANGED notFile

FNext == AddContact \/ RemoveContact \/ ClearFile

(***************************************************************************)
(* SyncWatcher (plugin/services/syncWatcher)                               *)
(***************************************************************************)

MaxMtime == 2

MaxStarts == 2

\* The .vcf files the watch folder may hold, in the order readdirSync lists
\* them; x.vcf is on the list of ignored filenames.
WatchFiles == <<"a.vcf", "b.vcf", "x.vcf">>

WatchPaths == {WatchFiles[i] : i \in 1..Len(WatchFiles)}

Settings(enabled) == [vcardWatchEnabled |-> enabled, vcardIgnoreFilenames |-> {"x.vcf"}]

shouldIgnoreFile(s, filePath) == filePath \in s.vcardIgnoreFilenames

\* scanFolder: the files of the folder with their mtime.
scanFolder(d) ==
    LET present == SelectSeq(WatchFiles, LAMBDA p : d[p] # 0)
    IN  [i \in 1..Len(present) |-> [path |-> present[i], mtime |-> d[present[i]]]]

\* Map.prototype.get (0 for undefined), set and delete on a Map kept as the
\* sequence of its entries.
mapGet(map, key) ==
    IF \E i \in 1..Len(map) : map[i].path = key
    THEN (CHOOSE e \in {map[i] : i \in 1..Len(map)} : e.path = key).mtime
    ELSE 0

mapSet(map, key, value) ==
    IF \E i \in 1..Len(map) : map[i].path = key
    THEN [i \in 1..Len(map) |-> IF map[i].path = key THEN [path |-> key, mtime |-> value]
                                ELSE map[i]]
    ELSE Append(map, [path |-> key, mtime |-> value])

mapDelete(map, key) == SelectSeq(map, LAMBDA e : e.path # key)

\* scanFolder(true): every file found is entered in lastChecked.
RECURSIVE scanInitial(_, _)
scanInitial(map, files) ==
    IF files = <<>> THEN map
    ELSE scanInitial(mapSet(map, Head(files).path, Head(files).mtime), Tail(files))

\* The first loop of checkForChanges over the files found.  The timestamp
\* of a change is left out.
RECURSIVE checkFiles(_, _, _, _)
checkFiles(s, map, files, changes) ==
    IF files = <<>> THEN [lastChecked |-> map, changes |-> changes]
    ELSE LET file == Head(files)
             lastMtime == mapGet(map, file.path)
         IN  IF shouldIgnoreFile(s, file.path)
             THEN checkFiles(s, map, Tail(files), changes)
             ELSE checkFiles(s, mapSet(map, file.path, file.mtime), Tail(files),
                             IF lastMtime = 0
                             THEN Append(changes, [path |-> file.path, type |-> "created"])
                             ELSE IF file.mtime > lastMtime
                             THEN Append(changes, [path |-> file.path, type |-> "modified"])
                             ELSE changes)

\* The second loop, over the entries of lastChecked: rest are the entries
\* still to visit.
RECURSIVE checkDeleted(_, _, _, _, _)
checkDeleted(s, map, rest, currentFiles, changes) ==
    IF rest = <<>> THEN [lastChecked |-> map, changes |-> changes]
    ELSE LET filePath == Head(rest).path
         IN  IF filePath \notin currentFiles /\ ~shouldIgnoreFile(s, filePath)
             THEN checkDeleted(s, mapDelete(map, filePath), Tail(rest), currentFiles,
                               Append(changes, [path |-> filePath, type |-> "deleted"]))
             ELSE checkDeleted(s, map, Tail(rest), currentFiles, changes)

\* A checkForChanges that does not record what it has seen.
checkForChangesForgetful(s, map, d) ==
    IF ~s.vcardWatchEnabled THEN [lastChecked |-> map, changes |-> <<>>]
    ELSE LET files == scanFolder(d)
             seen == checkFiles(s, map, files, <<>>)
             gone == checkDeleted(s, seen.lastChecked, seen.lastChecked,
                                  {files[i].path : i \in 1..Len(files)}, seen.changes)
         IN  [lastChecked |-> map, changes |-> gone.changes]

\* checkForChanges: the changes it returns and lastChecked afterwards.
checkForChanges(s, map, d) ==
    IF ~s.vcardWatchEnabled THEN [lastChecked |-> map, changes |-> <<>>]
    ELSE LET files == scanFolder(d)
             seen == checkFiles(s, map, files, <<>>)
         IN  checkDeleted(s, seen.lastChecked, seen.lastChecked,
                          {files[i].path : i \in 1..Len(files)}, seen.changes)

\* A file of the watch folder is written (created, or its mtime changes).
WriteFile ==
    /\ \E p \in WatchPaths, m \in 1..MaxMtime :
          /\ disk[p] # m
          /\ disk' = [disk EXCEPT ![p] = m]
    /\ kcall' = [op |-> "write", changes |-> <<>>]
    /\ UNCHANGED <<settings, isRunning, intervalId, timers, pendingStarts, issued,
                   lastChecked, notWatcher>>

\* A file of the watch folder is removed.
DeleteFile ==
    /\ \E p \in WatchPaths :
          /\ disk[p] # 0
          /\ disk' = [disk EXCEPT ![p] = 0]
    /\ kcall' = [op |-> "unlink", changes |-> <<>>]
    /\ UNCHANGED <<settings, isRunning, intervalId, timers, pendingStarts, issued,
                   lastChecked, notWatcher>>

CheckForChanges ==
    /\ lastChecked' = checkForChanges(settings, lastChecked, disk).lastChecked
    /\ kcall' = [op |-> "checkForChanges",
                 changes |-> checkForChanges(settings, lastChecked, disk).changes]
    /\ UNCHANGED <<settings, isRunning, intervalId, timers, pendingStarts, issued, disk,
                   notWatcher>>

\* start() up to its await: nothing when the watcher is running; otherwise
\* isRunning is set and the initial scan fills lastChecked.
startCall(running, map, d, pending) ==
    IF running
    THEN [isRunning |-> running, lastChecked |-> map, pendingStarts |-> pending]
    ELSE [isRunning |-> TRUE, lastChecked |-> scanInitial(map, scanFolder(d)),
          pendingStarts |-> pending + 1]

Start ==
    /\ isRunning \/ issued + pendingStarts < MaxStarts
    /\ isRunning' = startCall(isRunning, lastChecked, disk, pendingStarts).isRunning
    /\ lastChecked' = startCall(isRunning, lastChecked, disk, pendingStarts).lastChecked
    /\ pendingStarts' = startCall(isRunning, lastChecked, disk, pendingStarts).pendingStarts
    /\ kcall' = [op |-> "start", changes |-> <<>>]
    /\ UNCHANGED <<settings, intervalId, timers, issued, disk, notWatcher>>

\* start() after its await: setInterval creates a timer and intervalId is
\* assigned.
StartResumes ==
    /\ pendingStarts > 0
    /\ pendingStarts' = pendingStarts - 1
    /\ issued' = issued + 1
    /\ timers' = timers \union {issued + 1}
    /\ intervalId' = <<issued + 1>>
    /\ kcall' = [op |-> "start resumes", changes |-> <<>>]
    /\ UNCHANGED <<settings, isRunning, lastChecked, disk, notWatcher>>

Stop ==
    /\ timers' = IF intervalId # Null THEN timers \ {intervalId[1]} ELSE timers
    /\ intervalId' = Null
    /\ isRunning' = FALSE
    /\ kcall' = [op |-> "stop", changes |-> <<>>]
    /\ UNCHANGED <<settings, pendingStarts, issued, lastChecked, disk, notWatcher>>

\* updateSettings(settings): stop() when running, and then start() again
\* without awaiting it when the new settings enable the watch.
UpdateSettings ==
    /\ \E enabled \in BOOLEAN :
          LET restart == isRunning /\ enabled
              started == startCall(FALSE, lastChecked, disk, pendingStarts)
          IN  /\ restart => issued + pendingStarts < MaxStarts
              /\ settings' = Settings(enabled)
              /\ timers' = IF isRunning /\ intervalId # Null
                           THEN timers \ {intervalId[1]} ELSE timers
              /\ intervalId' = IF isRunning THEN Null ELSE intervalId
              /\ isRunning' = restart
              /\ lastChecked' = IF restart THEN started.lastChecked ELSE lastChecked
              /\ pendingStarts' = IF restart THEN started.pendingStarts ELSE pendingStarts
    /\ kcall' = [op |-> "updateSettings", changes |-> <<>>]
    /\ UNCHANGED <<issued, disk, notWatcher>>

\* The watch folder changes and checkForChanges is called.
KNext == WriteFile \/ DeleteFile \/ Start \/ CheckForChanges

\* start, stop and updateSettings are called, on a folder that may hold files.
TNext == WriteFile \/ Start \/ StartResumes \/ Stop \/ UpdateSettings

(***************************************************************************)
(* Contact cache indices (contactManager cache utilities)                  *)
(***************************************************************************)

\* UIDs and paths of cache entries; "" is a missing (falsy) value.
CacheUIDs == {"", "u1", "u2"}

CachePaths == {"", "a.md", "b.md"}

ContactCacheEntries == [uid : CacheUIDs, path : CachePaths]

\* Map.prototype.set and delete on a Map kept as a function; the order of
\* the keys is left out.
indexSet(index, key, value) ==
    [k \in DOMAIN index \union {key} |-> IF k = key THEN value ELSE index[k]]

indexDelete(index, key) == [k \in DOMAIN index \ {key} |-> index[k]]

\* updateCacheEntry: the two indices afterwards.
updateCacheEntry(uids, paths, entry) ==
    IF entry.uid = "" THEN [uidIndex |-> uids, pathIndex |-> paths]
    ELSE [uidIndex |-> indexSet(uids, entry.uid, entry),
          pathIndex |-> IF entry.path # "" THEN indexSet(paths, entry.path, entry.uid)
                        ELSE paths]

\* removeCacheEntry: the two indices afterwards.
removeCacheEntry(uids, paths, uid) ==
    IF uid \in DOMAIN uids
    THEN [uidIndex |-> indexDelete(uids, uid),
          pathIndex |-> IF uids[uid].path # "" THEN indexDelete(paths, uids[uid].path)
                        ELSE paths]
    ELSE [uidIndex |-> uids, pathIndex |-> paths]

\* validateCacheConsistency: the errors it reports, as a set.
validateCacheConsistency(uids, paths) ==
    {[error |-> "not in UID index", path |-> p, uid |-> paths[p]] :
        p \in {q \in DOMAIN paths : paths[q] \notin DOMAIN uids}}
    \union
    {[error |-> "not correctly indexed", path |-> uids[u].path, uid |-> u] :
        u \in {v \in DOMAIN uids :
                 /\ uids[v].path # ""
                 /\ \/ uids[v].path \notin DOMAIN paths
                    \/ paths[uids[v].path] # v}}

UpdateCacheEntry ==
    /\ \E entry \in ContactCacheEntries :
          /\ uidIndex' = updateCacheEntry(uidIndex, pathIndex, entry).uidIndex
          /\ pathIndex' = updateCacheEntry(uidIndex, pathIndex, entry).pathIndex
          /\ ccall' = [op |-> "updateCacheEntry", uid |-> entry.uid, path |-> entry.path]
    /\ UNCHANGED notCache

RemoveCacheEntry ==
    /\ \E uid \in CacheUIDs :
          /\ uidIndex' = removeCacheEntry(uidIndex, pathIndex, uid).uidIndex
          /\ pathIndex' = removeCacheEntry(uidIndex, pathIndex, uid).pathIndex
          /\ ccall' = [op |-> "removeCacheEntry", uid |-> uid, path |-> ""]
    /\ UNCHANGED notCache

ClearCache ==
    /\ uidIndex' = <<>>
    /\ pathIndex' = <<>>
    /\ ccall' = [op |-> "clearCache", uid |-> "", path |-> ""]
    /\ UNCHANGED notCache

HNext == UpdateCacheEntry \/ RemoveCacheEntry \/ ClearCache

(***************************************************************************)
(* Batch progress (vcardManager batch utilities)                           *)
(***************************************************************************)

MaxTotal == 3

MaxMarks == 3

createBatchProgress(total) ==
    [total |-> total, completed |-> 0, failed |-> 0, current |-> Null, done |-> FALSE]

updateBatchProgress(p, current) == [p EXCEPT !.current = current]

markBatchItemCompleted(p) ==
    [p EXCEPT !.completed = @ + 1,
              !.current = Null,
              !.done = IF p.completed + 1 + p.failed >= p.total THEN TRUE ELSE @]

markBatchItemFailed(p) ==
    [p EXCEPT !.failed = @ + 1,
              !.current = Null,
              !.done = IF p.completed + p.failed + 1 >= p.total THEN TRUE ELSE @]

isBatchComplete(p) == p.done

CreateBatchProgress ==
    /\ \E total \in 0..MaxTotal : progress' = createBatchProgress(total)
    /\ bcall' = "createBatchProgress"
    /\ UNCHANGED notBatch

UpdateBatchProgress ==
    /\ progress # Null
    /\ \E current \in {"a.vcf", "b.vcf"} :
          progress' = updateBatchProgress(progress, current)
    /\ bcall' = "updateBatchProgress"
    /\ UNCHANGED notBatch

MarkBatchItemCompleted ==
    /\ progress # Null
    /\ progress.completed + progress.failed < MaxMarks
    /\ progress' = markBatchItemCompleted(progress)
    /\ bcall' = "markBatchItemCompleted"
    /\ UNCHANGED notBatch

MarkBatchItemFailed ==
    /\ progress # Null
    /\ progress.completed + progress.failed < MaxMarks
    /\ progress' = markBatchItemFailed(progress)
    /\ bcall' = "markBatchItemFailed"
    /\ UNCHANGED notBatch

BNext ==
    \/ CreateBatchProgress
    \/ UpdateBatchProgress
    \/ MarkBatchItemCompleted
    \/ MarkBatchItemFailed

(***************************************************************************)
(* Metadata cache waits (plugin/services/metadataCacheWaiter)              *)
(***************************************************************************)

MaxAttempts == 2

NoteFiles == {"n1.md", "n2.md"}

NoWait ==
    [fn |-> "none", filePath |-> "", maxAttempts |-> 0, attempts |-> 0, polls |-> 0,
     pc |-> "idle", result |-> "void", observed |-> "nothing"]

\* A wait returns: its promise resolves with the result.
resolveWith(w, result, observed) ==
    [w EXCEPT !.pc = "resolved", !.result = result, !.observed = observed]

\* A wait has looked at the cache once more and sleeps (await of the
\* setTimeout promise).  The length of the delay is left out.
sleepAfterPoll(w) ==
    [w EXCEPT !.pc = "sleeping", !.polls = @ + 1, !.observed = "not cached"]

\* waitForMetadataCache from the test of the while loop to the next await
\* or return; polls counts the passes that looked at the cache.
waitForMetadataCacheLoop(w, files, cache) ==
    IF w.attempts < w.maxAttempts
    THEN IF files = {}
         THEN resolveWith(w, "void", "empty vault")
         ELSE IF \E file \in files : file \in cache
         THEN resolveWith([w EXCEPT !.polls = @ + 1], "void", "cached")
         ELSE sleepAfterPoll(w)
    ELSE resolveWith(w, "void", "gave up")

\* A waitForFileCache whose loop makes one pass too many.
waitForFileCacheLoopOneMore(w, files, cache) ==
    IF w.attempts <= w.maxAttempts
    THEN IF w.filePath \notin files
         THEN resolveWith(w, "false", "missing")
         ELSE IF w.filePath \in cache
         THEN resolveWith([w EXCEPT !.polls = @ + 1], "true", "cached")
         ELSE sleepAfterPoll(w)
    ELSE resolveWith(w, "false", "gave up")

\* waitForFileCache from the test of the while loop to the next await or
\* return.
waitForFileCacheLoop(w, files, cache) ==
    IF w.attempts < w.maxAttempts
    THEN IF w.filePath \notin files
         THEN resolveWith(w, "false", "missing")
         ELSE IF w.filePath \in cache
         THEN resolveWith([w EXCEPT !.polls = @ + 1], "true", "cached")
         ELSE sleepAfterPoll(w)
    ELSE resolveWith(w, "false", "gave up")

waitLoop(w, files, cache) ==
    IF w.fn = "waitForMetadataCache" THEN waitForMetadataCacheLoop(w, files, cache)
    ELSE waitForFileCacheLoop(w, files, cache)

\* Files are created and deleted, and Obsidian caches the metadata of files
\* of the vault.
VaultChanges ==
    /\ \E files \in SUBSET NoteFiles, cache \in SUBSET NoteFiles :
          /\ cache \subseteq files
          /\ vaultFiles' = files
          /\ fileCache' = cache
    /\ UNCHANGED <<wait, notWaiter>>

WaitForMetadataCache ==
    /\ wait.pc # "sleeping"
    /\ \E maxAttempts \in 0..MaxAttempts :
          wait' = waitForMetadataCacheLoop(
                      [NoWait EXCEPT !.fn = "waitForMetadataCache",
                                     !.maxAttempts = maxAttempts],
                      vaultFiles, fileCache)
    /\ UNCHANGED <<vaultFiles, fileCache, notWaiter>>

WaitForFileCache ==
    /\ wait.pc # "sleeping"
    /\ \E maxAttempts \in 0..MaxAttempts, filePath \in NoteFiles :
          wait' = waitForFileCacheLoop(
                      [NoWait EXCEPT !.fn = "waitForFileCache",
                                     !.filePath = filePath,
                                     !.maxAttempts = maxAttempts],
                      vaultFiles, fileCache)
    /\ UNCHANGED <<vaultFiles, fileCache, notWaiter>>

\* The timer of setTimeout fires: attempts++ and the loop goes on.
TimerFires ==
    /\ wait.pc = "sleeping"
    /\ wait' = waitLoop([wait EXCEPT !.attempts = @ + 1], vaultFiles, fileCache)
    /\ UNCHANGED <<vaultFiles, fileCache, notWaiter>>

ANext == VaultChanges \/ WaitForMetadataCache \/ WaitForFileCache \/ TimerFires

\* The event loop runs the callback of a timer that is due.
WaitFairness == WF_vars(TimerFires)

(***************************************************************************)
(* Specifications                                                          *)
(***************************************************************************)

\* A new CuratorQueue, a new ProcessorRegistry, and no pass under way.
Init ==
    /\ queue = <<>>
    /\ isProcessing = FALSE
    /\ activeContact = "null"
    /\ qcall = [op |-> "new"]
    /\ qret = Undefined
    /\ processors = <<>>
    /\ rcall = [op |-> "new"]
    /\ rret = Undefined
    /\ pc = "idle"
    /\ order = <<>>
    /\ idx = 0
    /\ record = {}
    /\ trace = <<>>
    /\ note = ContactNote(<<>>, EmptyString)
    /\ scall = [op |-> "new", before |-> ContactNote(<<>>, EmptyString)]
    /\ manager = <<>>
    /\ mret = [registry |-> <<>>, sorted |-> getSorted(<<>>)]
    /\ list = <<>>
    /\ fields = <<>>
    /\ parsed = <<>>
    /\ writeQueue = <<>>
    /\ writeProcessing = FALSE
    /\ currentOperation = Null
    /\ activePaths = {}
    /\ calls = [c \in Callers |-> Returned]
    /\ wcall = [op |-> "new"]
    /\ clock = 0
    /\ handed = <<>>
    /\ owed = FALSE
    /\ contacts = <<>>
    /\ fcall = [op |-> "empty", before |-> <<>>, result |-> "void"]
    /\ settings = Settings(TRUE)
    /\ isRunning = FALSE
    /\ intervalId = Null
    /\ timers = {}
    /\ pendingStarts = 0
    /\ issued = 0
    /\ lastChecked = <<>>
    /\ disk = [p \in WatchPaths |-> 0]
    /\ kcall = [op |-> "new", changes |-> <<>>]
    /\ uidIndex = <<>>
    /\ pathIndex = <<>>
    /\ ccall = [op |-> "new", uid |-> "", path |-> ""]
    /\ progress = Null
    /\ bcall = "none"
    /\ vaultFiles = {}
    /\ fileCache = {}
    /\ wait = NoWait

SpecQueue == Init /\ [][QNext]_vars

SpecRegistry == Init /\ [][RNext]_vars

SpecPipeline == Init /\ [][PNext]_vars

SpecSync == Init /\ [][SNext]_vars

SpecManager == Init /\ [][MNext]_vars

SpecCodec == Init /\ [][CNext]_vars

SpecGender == Init /\ [][GNext]_vars

SpecWrite == Init /\ [][WNext]_vars

SpecWriteLive == Init /\ [][LNext]_vars /\ WriteFairness

SpecFile == Init /\ [][FNext]_vars

SpecWatcher == Init /\ [][KNext]_vars

SpecTimer == Init /\ [][TNext]_vars

SpecCache == Init /\ [][HNext]_vars

SpecBatch == Init /\ [][BNext]_vars

SpecWait == Init /\ [][ANext]_vars /\ WaitFairness

(***************************************************************************)
(* CuratorQueue: properties                                                *)
(***************************************************************************)

\* The index of contact's entry in q (0 when there is none).
IndexOf(q, contact) == findIndex(q, contact)

\* q without its i-th element.
RemoveAt(q, i) == SubSeq(q, 1, i - 1) \o SubSeq(q, i + 1, Len(q))

\* C1: the queue holds at most one item per distinct contact reference,
\* whatever enqueue, dequeue and clear calls were made.
C1_OneItemPerReference ==
    \A i, j \in 1..Len(queue) :
        i # j => queue[i].contact # queue[j].contact

\* C1 witness: an enqueue of a contact that was already queued has run and
\* the contact is still there.
C1_Witness ==
    /\ qcall.op = "enqueue"
    /\ qcall.oldRunType # "none"
    /\ IndexOf(queue, qcall.contact) # 0
    /\ Len(queue) >= 2

\* C2: every dequeue removes and returns an entry of the highest priority
\* class then queued and, within that class, of the earliest stored
\* timestamp; on an empty queue it returns undefined.
C2_DequeueLaw ==
    [][qcall'.op = "dequeue" =>
         IF queue = <<>>
         THEN qret' = Undefined /\ queue' = <<>>
         ELSE /\ qret'.kind = "item"
              /\ \E i \in 1..Len(queue) :
                    /\ queue[i] = qret'.item
                    /\ queue' = RemoveAt(queue, i)
              /\ \A i \in 1..Len(queue) :
                    /\ getPriority(qret'.item.runType) >= getPriority(queue[i].runType)
                    /\ getPriority(qret'.item.runType) = getPriority(queue[i].runType)
                         => qret'.item.timestamp <= queue[i].timestamp
      ]_vars

\* C2 witness: a dequeue returned an entry while an entry of a lower class
\* and a later entry of the same class stay queued.
C2_Witness ==
    /\ qcall.op = "dequeue"
    /\ qret # Undefined
    /\ \E i \in 1..Len(queue) :
          getPriority(queue[i].runType) < getPriority(qret.item.runType)
    /\ \E i \in 1..Len(queue) :
          /\ queue[i].runType = qret.item.runType
          /\ queue[i].timestamp > qret.item.timestamp

\* An enqueue of an already-queued contact replaces the entry's runType and
\* timestamp when the new class is strictly higher and otherwise leaves the
\* whole queue (runType, timestamp, order) as it was; the size does not grow.
UpgradeOnlyWhenHigher ==
    [][(qcall'.op = "enqueue" /\ IndexOf(queue, qcall'.contact) # 0) =>
         LET i == IndexOf(queue, qcall'.contact)
             k == IndexOf(queue', qcall'.contact)
         IN  /\ Len(queue') = Len(queue)
             /\ k # 0
             /\ IF getPriority(qcall'.runType) > getPriority(queue[i].runType)
                THEN /\ queue'[k].runType = qcall'.runType
                     /\ queue'[k].timestamp = qcall'.now
                ELSE queue' = queue
      ]_vars

\* Two enqueue calls in a row for the same contact grow the size by at most
\* 1 over the pair.
PairGrowsByAtMostOne ==
    [][(qcall.op = "enqueue" /\ qcall'.op = "enqueue"
            /\ qcall'.contact = qcall.contact) =>
         Len(queue') <= Len(queue) - (IF qcall.oldRunType = "none" THEN 1 ELSE 0) + 1
      ]_vars

\* C3: enqueue on an already-queued contact changes the stored entry only
\* when the new priority class is strictly higher (then runType and
\* timestamp are replaced; otherwise runType, timestamp and order are
\* unchanged), and size() grows by at most 1 across two enqueue calls for
\* the same contact.
C3_EnqueueExisting == UpgradeOnlyWhenHigher /\ PairGrowsByAtMostOne

\* C3 witness: an already-queued contact was enqueued again with the same
\* class at a later time, and its entry kept the earlier timestamp.
C3_Witness ==
    /\ qcall.op = "enqueue"
    /\ qcall.oldRunType = qcall.runType
    /\ IndexOf(queue, qcall.contact) # 0
    /\ queue[IndexOf(queue, qcall.contact)].runType = qcall.runType
    /\ queue[IndexOf(queue, qcall.contact)].timestamp < qcall.now

\* C4: right after an enqueue that upgrades contact c to class q, c is
\* placed as a class-q entry: nothing of a lower class is ahead of it,
\* nothing of a higher class behind it, and it is at the head unless another
\* entry is of a higher class or of class q with a timestamp not later
\* than c's.
C4_UpgradeVisibleToNextDequeue ==
    [][(/\ qcall'.op = "enqueue"
        /\ IndexOf(queue, qcall'.contact) # 0
        /\ getPriority(qcall'.runType) >
              getPriority(queue[IndexOf(queue, qcall'.contact)].runType)) =>
         LET k == IndexOf(queue', qcall'.contact)
             p == getPriority(qcall'.runType)
         IN  /\ k # 0
             /\ \A j \in 1..(k - 1) : getPriority(queue'[j].runType) >= p
             /\ \A j \in (k + 1)..Len(queue') : getPriority(queue'[j].runType) <= p
             /\ (\A j \in 1..Len(queue') :
                    j # k =>
                      \/ getPriority(queue'[j].runType) < p
                      \/ /\ getPriority(queue'[j].runType) = p
                         /\ queue'[j].timestamp > queue'[k].timestamp)
                  => k = 1
      ]_vars

\* C4 witness: an upgrade moved a contact to the head, ahead of an entry
\* whose class is above the contact's old class.
C4_Witness ==
    /\ qcall.op = "enqueue"
    /\ qcall.oldRunType # "none"
    /\ getPriority(qcall.runType) > getPriority(qcall.oldRunType)
    /\ Len(queue) >= 2
    /\ queue[1].contact = qcall.contact
    /\ getPriority(queue[2].runType) > getPriority(qcall.oldRunType)

\* C5: two queued entries never carry the same path and uid, also when the
\* contact was passed as separate objects.
C5_OneItemPerPathAndUid ==
    \A i, j \in 1..Len(queue) :
        i # j => ContactKey(queue[i].contact) # ContactKey(queue[j].contact)


(***************************************************************************)
(* ProcessorRegistry: properties                                           *)
(***************************************************************************)

\* The names a dependency list holds.
NamesIn(deps) == {deps[i] : i \in 1..Len(deps)}

\* The registered processors that n names as dependencies.
RegisteredDeps(procs, n) ==
    {d \in NamesIn(get(procs, n).dependencies) : has(procs, d)}

\* The registered processors reachable from the set S along dependencies in
\* at most k steps (S not included unless reached).
RECURSIVE ReachWithin(_, _, _)
ReachWithin(procs, S, k) ==
    IF k = 0 THEN {}
    ELSE LET step == UNION {RegisteredDeps(procs, n) : n \in S}
         IN  step \cup ReachWithin(procs, step, k - 1)

\* The dependency graph of the registered processors has a cycle (a
\* processor naming itself included).
Cyclic(procs) ==
    \E i \in 1..Len(procs) :
        procs[i].name \in ReachWithin(procs, {procs[i].name}, Len(procs))

\* The position of name in an array of descriptors (0 when absent).
PositionIn(arr, name) ==
    IF \E i \in 1..Len(arr) : arr[i].name = name
    THEN CHOOSE i \in 1..Len(arr) : arr[i].name = name
    ELSE 0

C7_Permutation ==
    (rcall.op = "getSorted" /\ ~Cyclic(processors)) =>
        /\ rret.kind = "array"
        /\ Len(rret.value) = Len(processors)
        /\ \A i \in 1..Len(processors) :
              Cardinality({j \in 1..Len(rret.value) : rret.value[j] = processors[i]}) = 1
        /\ \A j \in 1..Len(rret.value) :
              \E i \in 1..Len(processors) : processors[i] = rret.value[j]

\* C7 witness: getSorted emitted a processor that names a dependency which
\* is not registered.
C7_Witness ==
    /\ rcall.op = "getSorted"
    /\ ~Cyclic(processors)
    /\ rret.kind = "array"
    /\ Len(processors) >= 2
    /\ \E j \in 1..Len(rret.value) :
          \E d \in NamesIn(rret.value[j].dependencies) : ~has(processors, d)

\* C8: a cyclic dependency graph (a self-dependency included) is reported
\* to the caller of getSorted as a configuration error, and getSorted never
\* recurses without bound.
C8_CycleReported ==
    rcall.op = "getSorted" =>
        /\ rret.kind # "RangeError"
        /\ Cyclic(processors) => rret.kind = "ConfigurationError"

\* C9: register of an already registered name overwrites: get(name) is the
\* new descriptor with exactly the new dependency list, the number of
\* registered processors and every other descriptor are unchanged, and
\* getSorted emits the new descriptor and orders it by the new dependencies.
C9_RegisterOverwrites ==
    [][(rcall'.op = "register" /\ has(processors, rcall'.processor.name)) =>
         LET new == rcall'.processor
             sorted == getSorted(processors')
         IN  /\ get(processors', new.name) = new
             /\ get(processors', new.name).dependencies = new.dependencies
             /\ Len(processors') = Len(processors)
             /\ \A i \in 1..Len(processors) :
                   processors[i].name # new.name => processors'[i] = processors[i]
             /\ sorted.kind = "array" =>
                   /\ \A j \in 1..Len(sorted.value) :
                         sorted.value[j].name = new.name => sorted.value[j] = new
                   /\ ~Cyclic(processors') =>
                         \A d \in RegisteredDeps(processors', new.name) :
                             PositionIn(sorted.value, d) < PositionIn(sorted.value, new.name)
      ]_vars

\* C9 witness: a processor registered ahead of its dependency was registered
\* again (the overwrite warning was given) without that dependency, and
\* getSorted now emits it first, ahead of the former dependency.
C9_Witness ==
    /\ rcall.op = "register"
    /\ rcall.warned
    /\ Len(processors) >= 2
    /\ processors[1] = rcall.processor
    /\ rcall.processor.dependencies = <<>>
    /\ getSorted(processors).kind = "array"
    /\ getSorted(processors).value[1] = rcall.processor

(***************************************************************************)
(* Pipeline pass: properties                                               *)
(***************************************************************************)

\* The positions of the gate calls in the trace, and the k-th of them.
GateCalls == {i \in 1..Len(trace) : trace[i].ev = "gate"}

NthGateCall(k) ==
    CHOOSE i \in GateCalls : Cardinality({j \in GateCalls : j <= i}) = k

\* The record as the mutate calls before position i have left it.
RECURSIVE RecordBefore(_)
RecordBefore(i) ==
    IF i <= 1 THEN {}
    ELSE IF trace[i - 1].ev = "start" THEN trace[i - 1].record
    ELSE IF trace[i - 1].ev = "mutate"
         THEN mutate(get(processors, trace[i - 1].name), RecordBefore(i - 1))
    ELSE RecordBefore(i - 1)

RelatedEntries(frontmatter) == SelectSeq(frontmatter, LAMBDA e : isRelatedKey(e.key))

\* The positions of the Related headings of a text.
RelatedHeadings(text) == {i \in 1..Len(text) : matchesHeading(text[i], "Related")}

\* The list items of a text, in text order.
ItemLines(text) == SelectSeq(text, isListItem)

\* The section that starts with the heading at position h: the heading and
\* the lines under it, up to the next heading.
SectionAt(text, h) ==
    LET stop == FirstLine(text, h + 1, isHeading)
    IN  [heading |-> text[h],
         body |-> SubSeq(text, h + 1, IF stop = 0 THEN Len(text) ELSE stop - 1)]

\* The sections of a text other than Related, in text order.
OtherSections(text) ==
    LET positions == SelectSeq([i \in 1..Len(text) |-> i],
                               LAMBDA i : /\ isHeading(text[i])
                                          /\ ~matchesHeading(text[i], "Related"))
    IN  [k \in 1..Len(positions) |-> SectionAt(text, positions[k])]

\* A section body without the empty lines at its end.
RECURSIVE StripTrailingBlank(_)
StripTrailingBlank(body) ==
    IF body # <<>> /\ body[Len(body)].kind = "blank"
    THEN StripTrailingBlank(SubSeq(body, 1, Len(body) - 1))
    ELSE body

\* C11: a second full pass of the standard processors, run right after a
\* first one with no edit in between, leaves the structured fields and the
\* text as the first pass left them.
C11_SecondPassChangesNothing ==
    [][(scall.op = "runProcessors" /\ scall'.op = "runProcessors") => note' = note]_vars

\* C12: after relatedListProcessor.process on a note with at least one
\* relationship field, the text list parses to one relationship per field,
\* with the field's type and target, in the fields' order.
C12_FieldsReadBackFromText ==
    (scall.op = "relatedListProcessor" /\ RelatedEntries(scall.before.frontmatter) # <<>>)
    => LET fromFields == parseRelatedFrontmatter(scall.before.frontmatter)
           fromText == parseRelatedSection(note.content)
       IN  /\ Len(fromText) = Len(fromFields)
           /\ \A i \in 1..Len(fromFields) :
                 /\ fromText[i].type = fromFields[i].type
                 /\ fromText[i].targetName = fromFields[i].targetUID

\* C13: a pass deletes no relationship: one that was in the structured
\* fields before the pass is in them afterwards, and one that was in the
\* text list is still in the text list.
C13_PassIsAdditive ==
    scall.op = "runProcessors"
    => /\ \A i \in 1..Len(RelatedEntries(scall.before.frontmatter)) :
             \E j \in 1..Len(RelatedEntries(note.frontmatter)) :
                /\ parseRelatedFrontmatter(note.frontmatter)[j].type
                      = parseRelatedFrontmatter(scall.before.frontmatter)[i].type
                /\ parseRelatedFrontmatter(note.frontmatter)[j].targetUID
                      = parseRelatedFrontmatter(scall.before.frontmatter)[i].targetUID
       /\ \A i \in 1..Len(parseRelatedSection(scall.before.content)) :
             \E j \in 1..Len(ItemLines(note.content)) :
                /\ toLowerCase(ItemLines(note.content)[j].word)
                      = parseRelatedSection(scall.before.content)[i].type
                /\ ItemLines(note.content)[j].name
                      = parseRelatedSection(scall.before.content)[i].targetName

WroteRelatedSection ==
    /\ scall.op \in {"relatedListProcessor", "genderRenderProcessor"}
    /\ shouldRun(scall.op, scall.before)
    /\ note.content # scall.before.content

\* C15: after relatedListProcessor or genderRenderProcessor has written the
\* Related section of a text with at most one Related heading, the text has
\* exactly one Related heading.
C15_OneRelatedHeading ==
    (WroteRelatedSection /\ Cardinality(RelatedHeadings(scall.before.content)) <= 1)
    => Cardinality(RelatedHeadings(note.content)) = 1

C17_RenderTwice ==
    [][(/\ scall.op = "genderRenderProcessor"
        /\ genderRenderShouldRun(scall.before)
        /\ scall'.op = "genderRenderProcessor") => note'.content = note.content]_vars

\* The note of the scenario: no gender, and a Related list of one item.
MotherNote ==
    ContactNote(<<>>, <<HeadingLine("Related"), BlankLine, ItemLine("mother", "Jane")>>)

\* C18: for a note without gender whose text list is "- mother [[Jane]]",
\* after Text->Fields, gender inference and gender rendering the gender is
\* F, the stored relationship type is parent, and the text list reads
\* "- mother [[Jane]]".
C18_MotherScenario ==
    (/\ scall.op = "genderRenderProcessor"
     /\ scall.before = genderInferenceProcess(relatedFrontMatterProcess(MotherNote)))
    => /\ field(note.frontmatter, "GENDER") = Str("F")
       /\ Len(parseRelatedFrontmatter(note.frontmatter)) = 1
       /\ parseRelatedFrontmatter(note.frontmatter)[1].type = "parent"
       /\ ItemLines(note.content) = <<ItemLine("mother", "Jane")>>

(***************************************************************************)
(* Properties of the standard processors' order and of the frontmatter     *)
(* codec                                                                   *)
(***************************************************************************)

\* C19: whatever the order in which the standard processors were
\* registered, getSorted places relatedFrontMatterProcessor before
\* genderInferenceProcessor and genderInferenceProcessor before
\* genderRenderProcessor.
C19_StandardOrder ==
    (\A processor \in StandardProcessors : has(mret.registry, processor.name))
    => /\ mret.sorted.kind = "array"
       /\ PositionIn(mret.sorted.value, "relatedFrontMatterProcessor") > 0
       /\ PositionIn(mret.sorted.value, "relatedFrontMatterProcessor")
             < PositionIn(mret.sorted.value, "genderInferenceProcessor")
       /\ PositionIn(mret.sorted.value, "genderInferenceProcessor")
             < PositionIn(mret.sorted.value, "genderRenderProcessor")

\* getSorted was called on a registry that holds the five processors, the
\* three of the chain registered in the reverse of their resolved order.
C19_Witness ==
    /\ \A processor \in StandardProcessors : has(mret.registry, processor.name)
    /\ keyIndex(mret.registry, "genderRenderProcessor")
          < keyIndex(mret.registry, "genderInferenceProcessor")
    /\ keyIndex(mret.registry, "genderInferenceProcessor")
          < keyIndex(mret.registry, "relatedFrontMatterProcessor")

\* The (type, namespace, targetUID) triples of a relationship list.
Triples(relationships) ==
    {<<relationships[i].type, relationships[i].namespace, relationships[i].targetUID>> :
        i \in 1..Len(relationships)}

\* The list has no two relationships with the same type and target, and
\* none in the name namespace.
RoundTripList(relationships) ==
    /\ \A i, j \in 1..Len(relationships) :
          (/\ relationships[i].type = relationships[j].type
           /\ relationships[i].targetUID = relationships[j].targetUID) => i = j
    /\ \A i \in 1..Len(relationships) : relationships[i].namespace # "name"

UpperTypes(relationships) ==
    {toUpperCase(relationships[i].type) : i \in 1..Len(relationships)}

KeyTypes(entries) == {entries[i].key.type : i \in 1..Len(entries)}

\* The fields of one type are laid out for the relationships of that type:
\* one relationship gives the bare key, N > 1 give the keys .0 to .(N-1) in
\* the relationships' order, and there is no other key of the type.
LaidOut(entries, relationships, type) ==
    LET group == SelectSeq(relationships, LAMBDA r : toUpperCase(r.type) = type)
        keys == SelectSeq(entries, LAMBDA e : e.key.type = type)
    IN  IF Len(group) = 1
        THEN keys = <<Entry(RelatedKey(type, NoIndex), formatUIDReference(group[1]))>>
        ELSE /\ Len(keys) = Len(group)
             /\ \A i \in 1..Len(group) :
                   keys[i] = Entry(RelatedKey(type, i - 1), formatUIDReference(group[i]))

C22_ReferenceRoundTrip ==
    parsed # <<>>
    => /\ \A i \in 1..Len(list) :
             LET back == parseUIDReference(formatUIDReference(list[i]))
             IN  /\ back.namespace = list[i].namespace
                 /\ list[i].namespace \in {"urn:uuid", "uid"} => back.uid = list[i].targetUID
                 /\ list[i].namespace = "name" => back.uid = list[i].targetName
       /\ Len(parsed[1]) = Len(fields[1])
       /\ \A k \in 1..Len(parsed[1]) :
             formatUIDReference(parsed[1][k]) = fields[1][k].value

\* A list with a name reference and a urn:uuid reference went through
\* generate and parse.
C22_Witness ==
    /\ parsed # <<>>
    /\ Len(parsed[1]) = 2
    /\ \E i, j \in 1..Len(list) :
          /\ list[i].namespace = "name" /\ list[i].targetName # NoName
          /\ list[j].namespace = "urn:uuid"

\* The last call was a standard processor's process.
ProcessorCalled == scall.op \in {p.name : p \in StandardProcessors}

NoRelationship(contact) ==
    /\ Len(parseRelatedFrontmatter(contact.frontmatter)) = 0
    /\ Len(parseRelatedSection(contact.content)) = 0

\* The last call was a pass of the pipeline: runProcessors, or one
\* processor whose shouldRun allowed its process.
PipelinePass ==
    \/ scall.op = "runProcessors"
    \/ ProcessorCalled /\ shouldRun(scall.op, scall.before)

\* C24: the text block generated for an empty relationship list is the
\* empty string, and a pipeline pass over a note with no relationship in
\* its fields and none in its text introduces no Related heading.
C24_EmptySectionOmitted ==
    /\ NoRelationship(note)
       => generateRelatedSection(parseRelatedFrontmatter(note.frontmatter)) = EmptyString
    /\ (PipelinePass /\ NoRelationship(scall.before))
       => /\ Cardinality(RelatedHeadings(note.content))
                <= Cardinality(RelatedHeadings(scall.before.content))
          /\ RelatedHeadings(scall.before.content) = {}
                => RelatedHeadings(note.content) = {}

\* runProcessors has given a UID to a note with a text of its own, no
\* relationship and no Related heading.
C24_Witness ==
    /\ scall.op = "runProcessors"
    /\ NoRelationship(scall.before)
    /\ RelatedHeadings(scall.before.content) = {}
    /\ scall.before.content # EmptyString
    /\ note # scall.before

\* C25: relatedListProcessor's shouldRun is true exactly when the note has
\* at least one RELATED field.
C25_GateIsHasRelatedField ==
    scall.op = "relatedListProcessor"
    => (shouldRun("relatedListProcessor", scall.before)
            <=> Len(RelatedEntries(scall.before.frontmatter)) > 0)

\* The positions of the relationships whose type tells a gender.
Telling(relationships) ==
    {i \in 1..Len(relationships) : inferGenderFromType(relationships[i].type) # NoName}

\* C26: genderInferenceProcessor, run on a note with relationships and no
\* GENDER, sets GENDER to the gender the first telling relationship of the
\* text infers, whatever the later ones infer, and leaves it unset when no
\* relationship tells one; a note with a GENDER is not processed (its gate
\* is false) and keeps the GENDER through runProcessors.
C26_FirstMatchWins ==
    LET before == scall.before
        relationships == parseRelatedSection(before.content)
        telling == Telling(relationships)
        first == CHOOSE i \in telling : \A j \in telling : i <= j
    IN  /\ (scall.op = "genderInferenceProcessor"
                /\ field(before.frontmatter, "GENDER") = Str(""))
           => IF telling = {}
              THEN note = before
              ELSE /\ field(note.frontmatter, "GENDER")
                        = Str(inferGenderFromType(relationships[first].type))
                   /\ note.content = before.content
        /\ (scall.op = "genderInferenceProcessor"
                /\ field(before.frontmatter, "GENDER") # Str(""))
           => ~shouldRun("genderInferenceProcessor", before)
        /\ (scall.op = "runProcessors" /\ field(before.frontmatter, "GENDER") # Str(""))
           => field(note.frontmatter, "GENDER") = field(before.frontmatter, "GENDER")

\* genderInferenceProcessor has set GENDER to F on a note that lists a
\* mother and then a father.
C26_Witness ==
    /\ scall.op = "genderInferenceProcessor"
    /\ field(scall.before.frontmatter, "GENDER") = Str("")
    /\ ItemLines(scall.before.content) = <<ItemLine("mother", "Jane"), ItemLine("father", "Jane")>>
    /\ field(note.frontmatter, "GENDER") = Str("F")

\* C28: store genderless, display gendered. For every gendered term t the
\* note lists, normalizeRelationshipType(t) is one of parent, sibling,
\* child, spouse, partner and getGenderedRelationshipType of it with the
\* gender inferGenderFromType(t) infers is t again; and when
\* genderRenderProcessor displays a stored genderless type for a GENDER of M
\* or F, the term it writes normalises to that type and infers that GENDER.
C28_StoreGenderlessDisplayGendered ==
    /\ \A i \in 1..Len(ItemLines(note.content)) :
          LET t == ItemLines(note.content)[i].word
          IN  t \in GenderedTerms
              => /\ normalizeRelationshipType(t) \in GenderlessTerms
                 /\ inferGenderFromType(t) \in {"M", "F"}
                 /\ getGenderedRelationshipType(normalizeRelationshipType(t),
                                                inferGenderFromType(t)) = t
    /\ (scall.op = "genderRenderProcessor"
            /\ shouldRun("genderRenderProcessor", scall.before))
       => /\ Len(ItemLines(note.content)) = Len(ItemLines(scall.before.content))
          /\ \A i \in 1..Len(ItemLines(scall.before.content)) :
                LET stored == ItemLines(scall.before.content)[i].word
                    shown == ItemLines(note.content)[i].word
                    gender == field(scall.before.frontmatter, "GENDER").id
                IN  stored \in GenderlessTerms
                    => /\ shown \in GenderedTerms
                       /\ normalizeRelationshipType(shown) = stored
                       /\ inferGenderFromType(shown) = gender

\* genderRenderProcessor has displayed a stored spouse as husband for a
\* contact whose GENDER is M.
C28_Witness ==
    /\ scall.op = "genderRenderProcessor"
    /\ field(scall.before.frontmatter, "GENDER") = Str("M")
    /\ Len(ItemLines(scall.before.content)) > 0
    /\ Len(ItemLines(note.content)) > 0
    /\ ItemLines(scall.before.content)[1].word = "spouse"
    /\ ItemLines(note.content)[1].word = "husband"
    /\ getGenderedRelationshipType(normalizeRelationshipType("husband"),
                                   inferGenderFromType("husband")) = "husband"

\* The fields of a note other than UID, in their order.
OtherFields(frontmatter) == SelectSeq(frontmatter, LAMBDA e : e.key # PlainKey("UID"))

\* C27: uidProcessor, run where its gate allows, leaves a note with a UID
\* and with every other field and the text as they were; its gate is false
\* on a note that has a UID, and such a note keeps exactly that UID through
\* runProcessors, however often it runs; after runProcessors every note has
\* a UID.
C27_UidOnlyWhenMissing ==
    LET before == scall.before
        had == field(before.frontmatter, "UID")
    IN  /\ (scall.op = "uidProcessor" /\ shouldRun("uidProcessor", before))
           => /\ had = Str("")
              /\ field(note.frontmatter, "UID").prefix = "urn:uuid:"
              /\ field(note.frontmatter, "UID").id \in UUIDs
              /\ OtherFields(note.frontmatter) = OtherFields(before.frontmatter)
              /\ note.content = before.content
        /\ (scall.op = "uidProcessor" /\ had # Str(""))
           => ~shouldRun("uidProcessor", before)
        /\ scall.op = "runProcessors"
           => /\ field(note.frontmatter, "UID") # Str("")
              /\ had # Str("") => field(note.frontmatter, "UID") = had

\* runProcessors has run on a note that came with a UID of its own and has
\* kept it, in a pass that wrote the RELATED fields.
C27_Witness ==
    /\ scall.op = "runProcessors"
    /\ RelatedEntries(note.frontmatter) # <<>>
    /\ field(scall.before.frontmatter, "UID") = Ref("urn:uuid:", "uuid-0")
    /\ field(note.frontmatter, "UID") = Ref("urn:uuid:", "uuid-0")

(***************************************************************************)
(* The queue's processing status and its contents                          *)
(***************************************************************************)

\* The first entry of q as a call returns it.
FirstOf(q) == IF q = <<>> THEN Undefined ELSE [kind |-> "item", item |-> q[1]]

StatusIndependentStep ==
    /\ qcall'.op = "setProcessing" => queue' = queue
    /\ qcall'.op \in {"enqueue", "dequeue", "peek", "clear"}
       => /\ isProcessing' = isProcessing
          /\ activeContact' = activeContact
    /\ qcall'.op = "enqueue"
       => /\ qret' = Undefined
          /\ \A i \in 1..Len(queue) :
                queue[i].contact # qcall'.contact
                => \E j \in 1..Len(queue') : queue'[j] = queue[i]
          /\ \E j \in 1..Len(queue') : queue'[j].contact = qcall'.contact
    /\ qcall'.op = "dequeue"
       => /\ qret' = FirstOf(queue)
          /\ queue' = SubSeq(queue, 2, Len(queue))
    /\ qcall'.op = "peek"
       => /\ qret' = FirstOf(queue)
          /\ queue' = queue
    /\ qcall'.op = "clear"
       => /\ qret' = Undefined
          /\ queue' = <<>>
    /\ (qcall.op = "peek" /\ qcall'.op = "dequeue") => qret' = qret

\* C29: setProcessing leaves the queued items and their order; enqueue,
\* dequeue, peek and clear give the results the queue alone determines and
\* leave isProcessing and activeContact; the dequeue that follows a peek
\* returns what the peek returned.
C29_StatusAndContentsIndependent == [][StatusIndependentStep]_vars

\* A peek on a queue that is marked as processing has returned its first
\* entry and left it there.
C29_Witness ==
    /\ qcall.op = "peek"
    /\ isProcessing
    /\ activeContact = "Alice"
    /\ Len(queue) >= 2
    /\ qret = FirstOf(queue)

(***************************************************************************)
(* WriteQueue: properties                                                  *)
(***************************************************************************)

\* The invocations whose writer has been called and has not settled.
InFlight == {c \in Callers : calls[c].pc = "writing"}

\* C30: at no time are two writer invocations in flight for the same path,
\* however enqueue, clear and overlapping processQueue calls interleave; a
\* path with a writer in flight is marked active.
C30_OneWriterPerPath ==
    /\ \A c, d \in InFlight :
          c # d => calls[c].operation[1].path # calls[d].operation[1].path
    /\ \A c \in InFlight : calls[c].operation[1].path \in activePaths

\* A writer is in flight for a path, another operation for the same path is
\* pending, and a second processQueue call has just come in and returned.
C30_Witness ==
    /\ InFlight # {}
    /\ wcall.op = "processQueue"
    /\ wcall.busy
    /\ wcall.caller \notin InFlight
    /\ \E c \in InFlight, i \in 1..Len(writeQueue) :
          writeQueue[i].path = calls[c].operation[1].path

(***************************************************************************)
(* What each relationship processor writes                                 *)
(***************************************************************************)

\* The fields of a note whose key does not start with RELATED., in order.
PlainEntries(frontmatter) == SelectSeq(frontmatter, LAMBDA e : ~isRelatedKey(e.key))

\* C33: relatedFrontMatterProcessor.process leaves the text and every field
\* whose key does not start with RELATED. as they were;
\* relatedListProcessor.process leaves the whole frontmatter as it was, the
\* RELATED fields that the text does not list included.
C33_WritesOnlyItsTarget ==
    /\ scall.op = "relatedFrontMatterProcessor"
       => /\ note.content = scall.before.content
          /\ PlainEntries(note.frontmatter) = PlainEntries(scall.before.frontmatter)
    /\ scall.op = "relatedListProcessor"
       => note.frontmatter = scall.before.frontmatter

\* relatedListProcessor has rewritten the text of a note that has a GENDER
\* and a RELATED.FRIEND field its text did not list, and the fields are all
\* there.
C33_Witness ==
    /\ scall.op = "relatedListProcessor"
    /\ note.content # scall.before.content
    /\ field(scall.before.frontmatter, "GENDER") # Str("")
    /\ Len(parseRelatedSection(scall.before.content)) = 1
    /\ \E i \in 1..Len(note.frontmatter) :
          note.frontmatter[i].key = RelatedKey("FRIEND", NoIndex)

\* Operation a is handed to the writer before operation b when both are
\* pending: its priority is higher, or equal and it was enqueued first.
GoesBefore(a, b) ==
    \/ a.priority > b.priority
    \/ a.priority = b.priority /\ a.timestamp < b.timestamp

\* The invocations that call the writer in this step.
Handing == {c \in Callers : calls[c].pc # "writing" /\ calls'[c].pc = "writing"}

WriteOrderStep ==
    /\ \A i, j \in 1..Len(writeQueue') : i < j => GoesBefore(writeQueue'[i], writeQueue'[j])
    /\ \A c \in Handing :
          /\ writeQueue # <<>>
          /\ calls'[c].operation = <<Head(writeQueue)>>
          /\ handed' = Append(handed, Head(writeQueue))
          /\ \A i \in 1..Len(writeQueue') :
                GoesBefore(calls'[c].operation[1], writeQueue'[i])
    /\ Handing = {} => handed' = handed

\* C34: the pending operations are kept, and handed to the writer, highest
\* priority first and first enqueued first among equal priorities; an
\* operation enqueued while the queue is processed takes its place by that
\* rule among those still pending.
C34_WriteOrder == [][WriteOrderStep]_vars

\* Two operations of one priority are pending in the order they came, the
\* second of them enqueued while a writer was in flight.
C34_Witness ==
    /\ InFlight # {}
    /\ Len(writeQueue) = 2
    /\ writeQueue[1].priority = writeQueue[2].priority
    /\ writeQueue[1].timestamp < writeQueue[2].timestamp
    /\ writeQueue[2].during

\* The invocations that go on in this step after their writer threw.
Recovering == {c \in Callers : calls[c].pc = "rejected" /\ calls'[c].pc # "rejected"}

FailureIsolatedStep ==
    \A c \in Recovering :
        LET failed == calls[c].operation[1]
        IN  /\ writeQueue # <<>>
               => /\ calls'[c] = [pc |-> "writing", operation |-> <<Head(writeQueue)>>]
                  /\ writeProcessing'
            /\ writeQueue = <<>>
               => /\ calls'[c] = Returned
                  /\ ~writeProcessing'
                  /\ currentOperation' = Null
            /\ failed.path \in activePaths'
               => \E d \in Callers : /\ calls'[d].pc = "writing"
                                      /\ calls'[d].operation[1].path = failed.path
                                      /\ calls'[d].operation[1] # failed

\* C35: after the writer has thrown for an operation, processQueue calls the
\* writer with the next pending operation, if there is one; the path of the
\* failed operation is no longer active, unless the next operation writes
\* to it; and once nothing is pending the invocation returns with the
\* processing flag false and the current operation null.
C35_FailureIsolated == [][FailureIsolatedStep]_vars

\* The writer threw for one operation, and the invocation has gone on to
\* hand the next one, for another path, to the writer.
C35_Witness ==
    /\ wcall.op = "resume"
    /\ wcall.after = "rejected"
    /\ Len(handed) >= 2
    /\ calls[wcall.caller].pc = "writing"
    /\ handed[Len(handed) - 1].path # handed[Len(handed)].path
    /\ handed[Len(handed) - 1].path \notin activePaths
    /\ writeProcessing

\* The timestamps of the operations the writer was called with.
HandedStamps == {handed[i].timestamp : i \in 1..Len(handed)}

\* C36: when clear is not called, processQueue is called at or after every
\* enqueue and every writer settles, each operation enqueued is eventually
\* handed to the writer, and none is handed twice; this includes the
\* operations enqueued while an invocation is running, whose own
\* processQueue call returns at once.  (The writer's calls only grow, so
\* each operation is handed eventually when, again and again, all those
\* enqueued so far have been handed.)
C36_NoWriteStranded ==
    /\ [](\A i, j \in 1..Len(handed) : i # j => handed[i].timestamp # handed[j].timestamp)
    /\ []<>(\A t \in 1..clock : t \in HandedStamps)

\* An operation that was enqueued while the queue was being processed has
\* been handed to the writer by the invocation that was running, after the
\* processQueue call that followed its enqueue.
C36_Witness ==
    /\ wcall.op = "resume"
    /\ ~owed
    /\ writeQueue = <<>>
    /\ Len(handed) >= 2
    /\ handed[Len(handed)].during
    /\ calls[wcall.caller].operation = <<handed[Len(handed)]>>
    /\ clock \in HandedStamps

(***************************************************************************)
(* VcardFile: properties                                                   *)
(***************************************************************************)

\* The UIDs of the contacts of cs, one for each contact.
UIDsOf(cs) == {cs[i].UID : i \in 1..Len(cs)}

\* C31: no two contacts of the file share a UID; addContact with a UID the
\* file has replaces that contact where it stands and keeps the count, and
\* with a new UID adds one; removeContact returns true exactly when the file
\* had a contact with that UID, and then the count is one lower and that
\* UID is gone, and otherwise nothing changes.
C31_UniqueUIDs ==
    /\ \A i, j \in 1..Len(contacts) : i # j => contacts[i].UID # contacts[j].UID
    /\ (fcall.op = "addContact" /\ fcall.result = "void")
       => IF fcall.data.UID \in UIDsOf(fcall.before)
          THEN /\ Len(contacts) = Len(fcall.before)
               /\ \A i \in 1..Len(contacts) :
                     contacts[i] = IF fcall.before[i].UID = fcall.data.UID
                                   THEN fcall.data ELSE fcall.before[i]
          ELSE contacts = Append(fcall.before, fcall.data)
    /\ fcall.op = "removeContact"
       => /\ fcall.result = (fcall.uid \in UIDsOf(fcall.before))
          /\ fcall.result
             => /\ Len(contacts) = Len(fcall.before) - 1
                /\ UIDsOf(contacts) = UIDsOf(fcall.before) \ {fcall.uid}
          /\ ~fcall.result => contacts = fcall.before

\* addContact has replaced the first of two contacts by one with the same
\* UID and another name.
C31_Witness ==
    /\ fcall.op = "addContact"
    /\ Len(fcall.before) = 2
    /\ Len(contacts) = 2
    /\ contacts[1].UID = fcall.before[1].UID
    /\ contacts[1].FN # fcall.before[1].FN
    /\ contacts[2] = fcall.before[2]

\* The reports of one path in a list of changes.
ReportsOf(changes, p) == {i \in 1..Len(changes) : changes[i].path = p}

\* What a comparison of the mtime recorded for a path with the folder asks
\* checkForChanges to report: nothing ("") or one kind of change.
ExpectedChange(s, before, now) ==
    IF before = 0 /\ now # 0 THEN "created"
    ELSE IF before # 0 /\ now > before THEN "modified"
    ELSE IF before # 0 /\ now = 0 THEN "deleted"
    ELSE ""

ChangeReportedStep ==
    (kcall'.op = "checkForChanges" /\ settings.vcardWatchEnabled) =>
        /\ \A p \in WatchPaths :
              LET reports == ReportsOf(kcall'.changes, p)
                  expected == ExpectedChange(settings, mapGet(lastChecked, p), disk[p])
              IN  IF shouldIgnoreFile(settings, p) \/ expected = ""
                  THEN reports = {}
                  ELSE /\ Cardinality(reports) = 1
                       /\ \A i \in reports : kcall'.changes[i].type = expected
        /\ \A p \in WatchPaths :
              ~shouldIgnoreFile(settings, p) => mapGet(lastChecked', p) = disk[p]
        /\ kcall.op = "checkForChanges" => kcall'.changes = <<>>

C37_TimerDiscipline ==
    /\ Cardinality(timers) <= 1
    /\ ~isRunning => timers = {}

\* C38: every path of the path index maps to a UID of the UID index whose
\* entry has that path, every entry of the UID index that has a path is
\* found through it, and validateCacheConsistency reports no error.
C38_IndicesConsistent ==
    /\ \A p \in DOMAIN pathIndex :
          /\ pathIndex[p] \in DOMAIN uidIndex
          /\ uidIndex[pathIndex[p]].path = p
    /\ \A u \in DOMAIN uidIndex :
          uidIndex[u].path # "" =>
              /\ uidIndex[u].path \in DOMAIN pathIndex
              /\ pathIndex[uidIndex[u].path] = u
    /\ validateCacheConsistency(uidIndex, pathIndex) = {}

\* C39: isBatchComplete is true exactly when completed + failed >= total.
C39_CompleteIffAllCounted ==
    progress # Null =>
        (isBatchComplete(progress) <=>
            progress.completed + progress.failed >= progress.total)

\* What holds of a wait in every state: it has looked at the cache at most
\* maxAttempts times; waitForFileCache resolved with true only when its last
\* look found the file cached, and with false only when the file was
\* missing or maxAttempts looks found no cache.
WaitBounded ==
    /\ wait.polls <= wait.maxAttempts
    /\ wait.attempts <= wait.maxAttempts
    /\ (wait.fn = "waitForFileCache" /\ wait.pc = "resolved") =>
          /\ wait.result = "true" <=> wait.observed = "cached"
          /\ wait.result = "false" =>
                \/ wait.observed = "missing"
                \/ wait.observed = "gave up" /\ wait.polls = wait.maxAttempts

\* A call that finds the vault empty, or a file cached, returns without
\* sleeping; so does a waitForFileCache call that finds its file cached or
\* missing.
ReturnsAtOnceStep ==
    /\ (/\ wait'.fn = "waitForMetadataCache"
        /\ wait'.attempts = 0
        /\ wait' # wait
        /\ vaultFiles = {} \/ vaultFiles \intersect fileCache # {})
       => wait'.pc = "resolved"
    /\ (/\ wait'.fn = "waitForFileCache"
        /\ wait'.attempts = 0
        /\ wait' # wait
        /\ wait'.filePath \notin vaultFiles \/ wait'.filePath \in fileCache)
       => /\ wait'.pc = "resolved"
          /\ wait'.maxAttempts > 0 =>
                (wait'.result = "true" <=> wait'.filePath \in fileCache)

\* C40: every wait ends, also when no cache ever becomes available (a wait
\* that sleeps is resolved later, and it never looks at the cache more than
\* maxAttempts times); waitForMetadataCache returns at once when the vault
\* has no markdown file or some file is cached; waitForFileCache returns
\* true only after it saw a cache for the file, and false when the file is
\* missing or after maxAttempts looks.
C40_WaitsTerminate ==
    /\ []WaitBounded
    /\ [][ReturnsAtOnceStep]_vars
    /\ []<>(wait.pc # "sleeping")

C40_Witness ==
    /\ wait.fn = "waitForMetadataCache"
    /\ wait.pc = "resolved"
    /\ wait.observed = "gave up"
    /\ wait.polls = MaxAttempts
    /\ vaultFiles # {}
    /\ fileCache = {}

====
